---- MODULE Spec2Model ----
(***************************************************************************)
(* Batch routing and batch-claiming engine of the seller catalog backend.  *)
(*                                                                         *)
(* The batch store (table product_batches) is the only shared state.       *)
(* Workers (the product-batches task) repeatedly call claimProductBatches  *)
(* and run processProductBatch on every batch the call returned.  Every    *)
(* storage round trip (one select, one update, one insert) is one atomic   *)
(* step; the steps of different processes interleave freely.               *)
(*                                                                         *)
(* Time is counted in minutes.  The round trips of one claimProductBatches *)
(* call are taken to complete within one minute, so the clock does not     *)
(* advance while a claim call is between its first select and its return;  *)
(* the fetch and persist work of the processor may take arbitrarily long.  *)
(***************************************************************************)
EXTENDS Integers, Sequences, FiniteSets, TLC

VARIABLES
    batches,            \* product_batches: id -> row
    now,                \* wall clock, minutes
    pc,                 \* per worker: position in productBatches.run
    sellerId,           \* per worker: payload.sellerId
    limit,              \* per worker: limit argument of the claim call
    remainingCapacity,  \* per worker: local of claimProductBatches
    attemptCount,       \* per worker: local of claimProductBatches
    claimedThisRound,   \* per worker: local of claimProductBatches
    totalClaimed,       \* per worker: local / return value of claimProductBatches
    batchesToClaim,     \* per worker: ids returned by the tier's select
    batchIndex,         \* per worker: index of the batch being processed
    loopCount,          \* per worker: claim calls issued by the run
    edgePc,             \* inline (edge function) request: position
    edgeBatch,          \* inline request: id of the batch record it created
    enqPc,              \* enqueueProductBatches request: position
    enqSeller,          \* enqueueProductBatches request: sellerUuid
    stuckBatches,       \* enqueueProductBatches request: ids found stuck
    enqLeft,            \* enqueueProductBatches requests still to come
    args,               \* arguments of the call of a pure function
    result,             \* what that call returned
    lookup,             \* per lookup request: position and locals of the handler
    proc,               \* a processProductBatch call: position, locals, effects, result
    dispatch,           \* the product-batches runs and the enqueue requests at Steps 3-4
    sellerInfoCache,    \* per worker: the sellers whose info the run has cached
    enqueue,            \* per request: findNewAsins and enqueueProductBatches with items
    tokenState          \* the keepa_token_state row and the TokenManager calls on it

vars == <<batches, now, pc, sellerId, limit, remainingCapacity, attemptCount,
          claimedThisRound, totalClaimed, batchesToClaim, batchIndex, loopCount,
          edgePc, edgeBatch, enqPc, enqSeller, stuckBatches, enqLeft,
          args, result, lookup, proc, dispatch, sellerInfoCache, enqueue, tokenState>>

workerVars == <<pc, sellerId, limit, remainingCapacity, attemptCount,
                claimedThisRound, totalClaimed, batchesToClaim, batchIndex, loopCount>>
edgeVars == <<edgePc, edgeBatch>>
enqVars == <<enqPc, enqSeller, stuckBatches, enqLeft>>
\* variables of the worker run, the token bucket and batch creation that only
\* their own specifications change
auxVars == <<sellerInfoCache, enqueue, tokenState>>

callVars == <<args, result, lookup, proc, dispatch, auxVars>>

----------------------------------------------------------------------------
(* Bounds of the model *)

Workers == {"w1", "w2"}
StoreWorkers == {"w1"}
Requests == {"r1", "r2"}
Sellers == {"s1", "s2"}
MaxLimit == 2           \* limit arguments are drawn from 1..MaxLimit
MaxLoops == 1           \* claim calls per worker run
MaxBatches == 3         \* rows the store may hold
MaxEnqueues == 1        \* enqueueProductBatches requests
BUCKET_SIZE == 15000    \* KEEPA.BUCKET_SIZE, the bucket's max_tokens
TOKENS_PER_PRODUCT == 7 \* KEEPA.TOKENS_PER_PRODUCT
REGEN_RATE == 250       \* KEEPA.REGEN_RATE, tokens_per_minute
BATCH_SIZE == 100       \* products per batch of createSmartBatches
ESTIMATED_TOKENS_PER_PRODUCT == 7
HIGH_PRIORITY_MAX == 200 \* asinList.length <= 200 ? 'HIGH' : 'LOW'
MaxTokenCalls == 2      \* TokenManager calls per caller
MaxCallLimit == 5       \* limit arguments of a direct claim call
MaxOwn == 2             \* the caller's seller's PENDING rows, direct call
MaxOrphans == 1         \* stale PROCESSING rows, direct call
MaxCross == 10          \* other sellers' PENDING rows, direct call
NumInitBatches == 2     \* rows in the store at the start
Instants == {0, 9, 11}  \* the minutes at which the clock is read

(* Program constants *)

ORPHAN_MINUTES == 10        \* 600000 ms
maxAttempts == 3
RECENT_MINUTES == 10        \* 10 * 60 * 1000 ms
STUCK_MINUTES == 30         \* 30 * 60 * 1000 ms

NULL == "null"
NoTime == 0 - 1000            \* a null timestamp
EDGE == "EDGE"
Statuses == {"PENDING", "PROCESSING", "COMPLETED", "FAILED"}
Priorities == {"HIGH", "LOW"}

----------------------------------------------------------------------------
(* Helpers *)

Min(a, b) == IF a < b THEN a ELSE b

BatchIds == DOMAIN batches

\* .order('priority', {ascending: false}): the column holds the strings
\* 'HIGH' and 'LOW'; descending string order puts 'LOW' before 'HIGH'.
PriorityRank(p) == IF p = "LOW" THEN 0 ELSE 1

\* .order('priority', desc).order('created_at', asc): a sorts strictly before b
Before(a, b) ==
    \/ PriorityRank(batches[a].priority) < PriorityRank(batches[b].priority)
    \/ /\ batches[a].priority = batches[b].priority
       /\ batches[a].created_at < batches[b].created_at

\* .limit(k) after the ordering: the possible results of the select.  Rows
\* that tie in the ordering come in an order the database does not specify.
TopK(cands, k) ==
    {S \in SUBSET cands :
        /\ Cardinality(S) = Min(k, Cardinality(cands))
        /\ \A x \in S, y \in cands \ S : ~Before(y, x)}

\* rows of an update's .select(), listed in the ordering (ties by id)
RECURSIVE Rows(_)
Rows(S) ==
    IF S = {} THEN <<>>
    ELSE LET x == CHOOSE x \in S : \A y \in S \ {x} :
                      Before(x, y) \/ (~Before(y, x) /\ x < y)
         IN <<x>> \o Rows(S \ {x})

Tagged(ids, tier) == [i \in 1..Len(ids) |-> [id |-> ids[i], tier |-> tier]]

Ids(list) == {list[i].id : i \in 1..Len(list)}

----------------------------------------------------------------------------
(* claimProductBatches: tier filters *)

AssignedSellerFilter(b, s) ==
    /\ batches[b].seller_id = s
    /\ batches[b].status = "PENDING"
    /\ batches[b].processing_by = NULL

OrphanAgeInclusive(b) == batches[b].started_at <= now - ORPHAN_MINUTES

OrphanAgeLate(b) == batches[b].started_at < now - 2 * ORPHAN_MINUTES

\* .lt('started_at', tenMinutesAgo)
OrphanAge(b) == batches[b].started_at < now - ORPHAN_MINUTES

OrphanedFilter(b) ==
    /\ batches[b].status = "PROCESSING"
    /\ batches[b].started_at # NoTime
    /\ OrphanAge(b)

CrossSellerFilter(b, s) ==
    /\ batches[b].status = "PENDING"
    /\ batches[b].processing_by = NULL
    /\ batches[b].seller_id # s

CandidatesSwapped(tier, s) ==
    CASE tier = 1 -> {b \in BatchIds : AssignedSellerFilter(b, s)}
      [] tier = 2 -> {b \in BatchIds : CrossSellerFilter(b, s)}
      [] tier = 3 -> {b \in BatchIds : OrphanedFilter(b)}

\* Step 1, Step 2, Step 3 of a round
Candidates(tier, s) ==
    CASE tier = 1 -> {b \in BatchIds : AssignedSellerFilter(b, s)}
      [] tier = 2 -> {b \in BatchIds : OrphanedFilter(b)}
      [] tier = 3 -> {b \in BatchIds : CrossSellerFilter(b, s)}

ClaimRowNoOwner(row, w) ==
    [row EXCEPT !.status = "PROCESSING", !.started_at = now]

ClaimRowStaleStart(row, w) ==
    [row EXCEPT !.processing_by = w, !.status = "PROCESSING"]

\* .update({processing_by, status: 'PROCESSING', started_at}).in('id', ids)
ClaimRow(row, w) ==
    [row EXCEPT !.processing_by = w, !.status = "PROCESSING", !.started_at = now]

ClaimUpdate(ids, w) ==
    [b \in BatchIds |-> IF b \in ids THEN ClaimRow(batches[b], w) ELSE batches[b]]

SelPc(tier) == CASE tier = 1 -> "select1" [] tier = 2 -> "select2" [] tier = 3 -> "select3"
UpdPc(tier) == CASE tier = 1 -> "update1" [] tier = 2 -> "update2" [] tier = 3 -> "update3"

ClaimPcs == {"select1", "update1", "select2", "update2", "select3", "update3"}

MaxAttemptsPlusOne == maxAttempts + 1

MaxAttempts == maxAttempts

\* while (remainingCapacity > 0 && attemptCount < maxAttempts)
LoopCondition(rem, attempts) == rem > 0 /\ attempts < MaxAttempts

\* Control flow of claimProductBatches after tier `tier` returned, with the
\* locals as they are then: the next tier of the round when capacity is left,
\* otherwise the end of the round (push, break on an empty round, count the
\* attempt, test the loop condition).
AfterTier(w, tier, rem, round) ==
    IF tier < 3 /\ rem > 0
    THEN [pc |-> SelPc(tier + 1), attemptCount |-> attemptCount[w],
          claimedThisRound |-> round, totalClaimed |-> totalClaimed[w]]
    ELSE LET total == totalClaimed[w] \o round IN
         IF round = <<>>
         THEN [pc |-> "returned", attemptCount |-> attemptCount[w],
               claimedThisRound |-> round, totalClaimed |-> total]
         ELSE IF LoopCondition(rem, attemptCount[w] + 1)
              THEN [pc |-> "select1", attemptCount |-> attemptCount[w] + 1,
                    claimedThisRound |-> <<>>, totalClaimed |-> total]
              ELSE [pc |-> "returned", attemptCount |-> attemptCount[w] + 1,
                    claimedThisRound |-> round, totalClaimed |-> total]

Continue(w, tier, rem, round) ==
    LET n == AfterTier(w, tier, rem, round) IN
    /\ pc' = [pc EXCEPT ![w] = n.pc]
    /\ attemptCount' = [attemptCount EXCEPT ![w] = n.attemptCount]
    /\ claimedThisRound' = [claimedThisRound EXCEPT ![w] = n.claimedThisRound]
    /\ totalClaimed' = [totalClaimed EXCEPT ![w] = n.totalClaimed]
    /\ remainingCapacity' = [remainingCapacity EXCEPT ![w] = rem]

RemainingKept(rem, step) == rem

\* remainingCapacity -= step.length
Remaining(rem, step) == rem - Len(step)

\* The select of a tier; an empty result returns [] from the tier at once.
TierSelect(w, tier) ==
    /\ pc[w] = SelPc(tier)
    /\ \E S \in TopK(Candidates(tier, sellerId[w]), remainingCapacity[w]) :
          IF S = {}
          THEN /\ Continue(w, tier, remainingCapacity[w], claimedThisRound[w])
               /\ UNCHANGED batchesToClaim
          ELSE /\ batchesToClaim' = [batchesToClaim EXCEPT ![w] = S]
               /\ pc' = [pc EXCEPT ![w] = UpdPc(tier)]
               /\ UNCHANGED <<attemptCount, claimedThisRound, totalClaimed, remainingCapacity>>
    /\ UNCHANGED <<batches, now, sellerId, limit, batchIndex, loopCount, edgeVars, enqVars,
                   callVars>>

\* The update of a tier, by id only, returning every updated row.
TierUpdate(w, tier) ==
    /\ pc[w] = UpdPc(tier)
    /\ batches' = ClaimUpdate(batchesToClaim[w], w)
    /\ LET step == Tagged(Rows(batchesToClaim[w]), tier) IN
          Continue(w, tier, Remaining(remainingCapacity[w], step),
                   claimedThisRound[w] \o step)
    /\ batchesToClaim' = [batchesToClaim EXCEPT ![w] = {}]
    /\ UNCHANGED <<now, sellerId, limit, batchIndex, loopCount, edgeVars, enqVars,
                   callVars>>

claimAssignedSellerSelect(w) == pc[w] = "select1" /\ TierSelect(w, 1)
claimAssignedSellerUpdate(w) == pc[w] = "update1" /\ TierUpdate(w, 1)
claimOrphanedBatchesSelect(w) == pc[w] = "select2" /\ TierSelect(w, 2)
claimOrphanedBatchesUpdate(w) == pc[w] = "update2" /\ TierUpdate(w, 2)
claimCrossSellerBatchesSelect(w) == pc[w] = "select3" /\ TierSelect(w, 3)
claimCrossSellerBatchesUpdate(w) == pc[w] = "update3" /\ TierUpdate(w, 3)

\* Entry of claimProductBatches(supabase, sellerId, workerId, limit)
claimProductBatches(w, s, l) ==
    /\ sellerId' = [sellerId EXCEPT ![w] = s]
    /\ limit' = [limit EXCEPT ![w] = l]
    /\ remainingCapacity' = [remainingCapacity EXCEPT ![w] = l]
    /\ attemptCount' = [attemptCount EXCEPT ![w] = 0]
    /\ claimedThisRound' = [claimedThisRound EXCEPT ![w] = <<>>]
    /\ totalClaimed' = [totalClaimed EXCEPT ![w] = <<>>]
    /\ batchesToClaim' = [batchesToClaim EXCEPT ![w] = {}]
    /\ pc' = [pc EXCEPT ![w] = IF LoopCondition(l, 0) THEN "select1" ELSE "returned"]

----------------------------------------------------------------------------
(* processProductBatch: the writes to the batch record *)

\* Step 2: .update({status: 'PROCESSING', started_at}).eq('id', batchId)
ProcessingUpdate(id) ==
    [b \in BatchIds |-> IF b = id
        THEN [batches[b] EXCEPT !.status = "PROCESSING", !.started_at = now]
        ELSE batches[b]]

FinalUpdateRequeue(id, st) ==
    [b \in BatchIds |-> IF b = id
        THEN [batches[b] EXCEPT !.status = IF st = "FAILED" THEN "PENDING" ELSE st]
        ELSE batches[b]]

\* Steps 3-6: .update({status: 'FAILED' | 'COMPLETED'}).eq('id', batchId)
FinalUpdate(id, st) ==
    [b \in BatchIds |-> IF b = id THEN [batches[b] EXCEPT !.status = st] ELSE batches[b]]

\* Step 1 with createBatch: the inserted row
InlineRow(s, p) ==
    [seller_id |-> s, status |-> "PENDING", processing_by |-> EDGE, worker_id |-> NULL,
     started_at |-> NoTime, created_at |-> now, priority |-> p]

NewId == Cardinality(BatchIds) + 1

----------------------------------------------------------------------------
(* productBatches.run: the worker loop *)

CurrentBatch(w) == totalClaimed[w][batchIndex[w]].id

\* payload.sellerId of the run: the first worker serves the first seller
PayloadSellers(w) == IF w = "w1" THEN {"s1"} ELSE Sellers

\* while (hasMoreWork && !isApproachingTimeout()) { claimProductBatches(...) }
WorkerClaim(w) ==
    /\ pc[w] \in {"idle", "loop"}
    /\ loopCount[w] < MaxLoops
    /\ loopCount' = [loopCount EXCEPT ![w] = @ + 1]
    /\ \E s \in PayloadSellers(w), l \in 1..MaxLimit :
          /\ pc[w] = "loop" => (s = sellerId[w] /\ l = limit[w])
          /\ claimProductBatches(w, s, l)
    /\ UNCHANGED <<batches, now, batchIndex, edgeVars, enqVars,
                   callVars>>

\* the run has ended: its locals are gone
EndRun(w, how) ==
    /\ pc' = [pc EXCEPT ![w] = how]
    /\ limit' = [limit EXCEPT ![w] = 0]
    /\ remainingCapacity' = [remainingCapacity EXCEPT ![w] = 0]
    /\ attemptCount' = [attemptCount EXCEPT ![w] = 0]
    /\ claimedThisRound' = [claimedThisRound EXCEPT ![w] = <<>>]
    /\ totalClaimed' = [totalClaimed EXCEPT ![w] = <<>>]
    /\ batchesToClaim' = [batchesToClaim EXCEPT ![w] = {}]
    /\ batchIndex' = [batchIndex EXCEPT ![w] = 0]
    /\ UNCHANGED <<sellerId, loopCount>>

\* an empty claim ends the run; otherwise the batches are processed in order
WorkerAfterClaim(w) ==
    /\ pc[w] = "returned"
    /\ IF totalClaimed[w] = <<>>
       THEN EndRun(w, "finished")
       ELSE /\ pc' = [pc EXCEPT ![w] = "step2"]
            /\ batchIndex' = [batchIndex EXCEPT ![w] = 1]
            /\ remainingCapacity' = [remainingCapacity EXCEPT ![w] = 0]
            /\ attemptCount' = [attemptCount EXCEPT ![w] = 0]
            /\ claimedThisRound' = [claimedThisRound EXCEPT ![w] = <<>>]
            /\ UNCHANGED <<sellerId, limit, totalClaimed, batchesToClaim, loopCount>>
    /\ UNCHANGED <<batches, now, edgeVars, enqVars,
                   callVars>>

WorkerStep2(w) ==
    /\ pc[w] = "step2"
    /\ batches' = ProcessingUpdate(CurrentBatch(w))
    /\ pc' = [pc EXCEPT ![w] = "final"]
    /\ UNCHANGED <<now, sellerId, limit, remainingCapacity, attemptCount,
                   claimedThisRound, totalClaimed, batchesToClaim, batchIndex,
                   loopCount, edgeVars, enqVars,
                   callVars>>

WorkerFinal(w) ==
    /\ pc[w] = "final"
    /\ \E st \in {"COMPLETED", "FAILED"} : batches' = FinalUpdate(CurrentBatch(w), st)
    /\ IF batchIndex[w] < Len(totalClaimed[w])
       THEN /\ batchIndex' = [batchIndex EXCEPT ![w] = @ + 1]
            /\ pc' = [pc EXCEPT ![w] = "step2"]
       ELSE /\ pc' = [pc EXCEPT ![w] = "loop"]
            /\ UNCHANGED batchIndex
    /\ UNCHANGED <<now, sellerId, limit, remainingCapacity, attemptCount,
                   claimedThisRound, totalClaimed, batchesToClaim, loopCount,
                   edgeVars, enqVars,
                   callVars>>

\* isApproachingTimeout(): the run stops claiming
WorkerTimeout(w) ==
    /\ pc[w] = "loop"
    /\ EndRun(w, "finished")
    /\ UNCHANGED <<batches, now, edgeVars, enqVars,
                   callVars>>

\* the run is killed (crash, out of memory, maxDuration) wherever it is
WorkerCrash(w) ==
    /\ pc[w] \notin {"idle", "finished", "crashed"}
    /\ EndRun(w, "crashed")
    /\ UNCHANGED <<batches, now, edgeVars, enqVars,
                   callVars>>

----------------------------------------------------------------------------
(* The inline path: processProductBatch(..., {source: 'EDGE', createBatch: true}) *)

InlineCreate ==
    /\ edgePc = "idle"
    /\ Cardinality(BatchIds) < MaxBatches
    /\ \E s \in Sellers, p \in Priorities :
          batches' = batches @@ (NewId :> InlineRow(s, p))
    /\ edgeBatch' = NewId
    /\ edgePc' = "step2"
    /\ UNCHANGED <<now, workerVars, enqVars,
                   callVars>>

InlineStep2 ==
    /\ edgePc = "step2"
    /\ batches' = ProcessingUpdate(edgeBatch)
    /\ edgePc' = "final"
    /\ UNCHANGED <<now, edgeBatch, workerVars, enqVars,
                   callVars>>

InlineFinal ==
    /\ edgePc = "final"
    /\ \E st \in {"COMPLETED", "FAILED"} : batches' = FinalUpdate(edgeBatch, st)
    /\ edgePc' = "done"
    /\ UNCHANGED <<now, edgeBatch, workerVars, enqVars,
                   callVars>>

----------------------------------------------------------------------------
(* enqueueProductBatches: checkExistingBatches, createSmartBatches *)

ExistingBatches(s) ==
    {b \in BatchIds : batches[b].seller_id = s
                      /\ batches[b].status \in {"PENDING", "PROCESSING"}}

\* batchTime > tenMinutesAgo
RecentBatches(s) ==
    {b \in ExistingBatches(s) : batches[b].created_at > now - RECENT_MINUTES}

\* else if (status PENDING or PROCESSING) && batchTime < thirtyMinutesAgo
StuckBatches(s) ==
    {b \in ExistingBatches(s) \ RecentBatches(s) :
        batches[b].created_at < now - STUCK_MINUTES}

checkExistingBatchesSelect ==
    /\ enqPc \in {"idle", "done"}
    /\ enqLeft > 0
    /\ enqLeft' = enqLeft - 1
    /\ \E s \in Sellers :
          /\ enqSeller' = s
          /\ IF RecentBatches(s) # {}
             THEN enqPc' = "done" /\ stuckBatches' = {}
             ELSE IF StuckBatches(s) # {}
                  THEN enqPc' = "cleanup" /\ stuckBatches' = StuckBatches(s)
                  ELSE enqPc' = "create" /\ stuckBatches' = {}
    /\ UNCHANGED <<batches, now, workerVars, edgeVars,
                   callVars>>

\* .update({status: 'FAILED'}).in('id', stuckBatches.map(b => b.id))
checkExistingBatchesUpdate ==
    /\ enqPc = "cleanup"
    /\ batches' = [b \in BatchIds |->
                      IF b \in stuckBatches THEN [batches[b] EXCEPT !.status = "FAILED"]
                      ELSE batches[b]]
    /\ enqPc' = "create"
    /\ UNCHANGED <<now, enqSeller, stuckBatches, enqLeft, workerVars, edgeVars,
                   callVars>>

\* priority: asinList.length <= 200 ? 'HIGH' : 'LOW', with 100 products per batch
SmartPriority(n) == IF n <= 2 THEN "HIGH" ELSE "LOW"

SmartRow(s, n) ==
    [seller_id |-> s, status |-> "PENDING", processing_by |-> NULL, worker_id |-> NULL,
     started_at |-> NoTime, created_at |-> now, priority |-> SmartPriority(n)]

\* the bulk insert of totalBatches rows (or its failure, which inserts nothing)
createSmartBatches ==
    /\ enqPc = "create"
    /\ \/ \E n \in 1..(MaxBatches - Cardinality(BatchIds)) :
             batches' = batches @@
                 [i \in (NewId)..(Cardinality(BatchIds) + n) |-> SmartRow(enqSeller, n)]
       \/ UNCHANGED batches
    /\ enqPc' = "done"
    /\ stuckBatches' = {}
    /\ UNCHANGED <<now, enqSeller, enqLeft, workerVars, edgeVars,
                   callVars>>

----------------------------------------------------------------------------
(* The clock *)

Tick ==
    /\ \A w \in Workers : pc[w] \notin ClaimPcs
    /\ \E t \in Instants : t > now /\ now' = t
    /\ UNCHANGED <<batches, workerVars, edgeVars, enqVars, callVars>>

----------------------------------------------------------------------------
(* The system: a store with batches queued earlier, two workers, one inline
   request, enqueue requests *)

\* rows queued by earlier enqueue requests, the sellers alternating
InitSeller(i) == IF i % 2 = 1 THEN "s1" ELSE "s2"

QueuedRow(i, t, p) ==
    [seller_id |-> InitSeller(i), status |-> "PENDING", processing_by |-> NULL,
     worker_id |-> NULL, started_at |-> NoTime, created_at |-> t, priority |-> p]

InitWorkers ==
    /\ pc = [w \in Workers |-> "idle"]
    /\ sellerId = [w \in Workers |-> "s1"]
    /\ limit = [w \in Workers |-> 0]
    /\ remainingCapacity = [w \in Workers |-> 0]
    /\ attemptCount = [w \in Workers |-> 0]
    /\ claimedThisRound = [w \in Workers |-> <<>>]
    /\ totalClaimed = [w \in Workers |-> <<>>]
    /\ batchesToClaim = [w \in Workers |-> {}]
    /\ batchIndex = [w \in Workers |-> 0]
    /\ loopCount = [w \in Workers |-> 0]

\* no lookup request has arrived
NoLookup == [r \in Requests |-> [pc |-> "idle", newCount |-> 0, batchId |-> 0]]

\* processProductBatch is not followed; no run exists and no enqueue request
\* is at its dispatch steps
NoProc == [pc |-> "idle"]
NoDispatch == [executing |-> 0, queued |-> 0, pending |-> 0,
               request |-> [r \in Requests |->
                               [pc |-> "idle", activeCount |-> 0, calls |-> 0]]]

NoEnqueue == [r \in Requests |-> [pc |-> "idle", newProducts |-> <<>>, stuck |-> {}]]

\* no run has cached a seller, no request is in findNewAsins or in
\* enqueueProductBatches
\* no TokenManager call has been made; the bucket is full
NoTokenState ==
    [current_tokens |-> BUCKET_SIZE, max_tokens |-> BUCKET_SIZE,
     is_circuit_breaker_open |-> FALSE, ledger |-> BUCKET_SIZE,
     call |-> [r \in Requests |->
                  [pc |-> "idle", calls |-> 0, amount |-> 0, read |-> 0, returned |-> FALSE]]]

InitAux ==
    /\ sellerInfoCache = [w \in Workers |-> {}]
    /\ enqueue = NoEnqueue
    /\ tokenState = NoTokenState

InitRequestVars(n) ==
    /\ edgePc = "idle"
    /\ edgeBatch = 0
    /\ enqPc = "idle"
    /\ enqSeller = "s1"
    /\ stuckBatches = {}
    /\ enqLeft = n
    /\ lookup = NoLookup
    /\ proc = NoProc
    /\ dispatch = NoDispatch
    /\ InitAux

\* no call of a pure function is followed
NoCall == <<>>

InitRequests(n) ==
    /\ InitRequestVars(n)
    /\ args = NoCall
    /\ result = NoCall

Init ==
    /\ batches = [i \in 1..NumInitBatches |-> QueuedRow(i, 0, "HIGH")]
    /\ now = 0
    /\ InitWorkers
    /\ InitRequests(0)

\* one step of the run of worker w
WorkerStep(w) ==
    \/ WorkerClaim(w)
    \/ claimAssignedSellerSelect(w)
    \/ claimAssignedSellerUpdate(w)
    \/ claimOrphanedBatchesSelect(w)
    \/ claimOrphanedBatchesUpdate(w)
    \/ claimCrossSellerBatchesSelect(w)
    \/ claimCrossSellerBatchesUpdate(w)
    \/ WorkerAfterClaim(w)
    \/ WorkerStep2(w)
    \/ WorkerFinal(w)
    \/ WorkerTimeout(w)
    \/ WorkerCrash(w)

Next ==
    \/ \E w \in Workers : WorkerStep(w)
    \/ Tick

Spec == Init /\ [][Next]_vars

----------------------------------------------------------------------------
(* The store under every writer: a worker, the inline request and enqueue
   requests, over rows queued just now or more than thirty minutes ago *)

OldCreated == 0 - (STUCK_MINUTES + 1)

\* a row claimed by a run that died more than ten minutes ago
OrphanRow(i, t) ==
    [QueuedRow(i, t, "HIGH") EXCEPT !.status = "PROCESSING", !.processing_by = "w0",
                                    !.started_at = 0 - (ORPHAN_MINUTES + 1)]

InitStore ==
    /\ \E t \in {OldCreated, 0}, orphan \in BOOLEAN :
          batches = [i \in 1..NumInitBatches |->
                        IF orphan /\ i = 1 THEN OrphanRow(i, t)
                        ELSE QueuedRow(i, t, "HIGH")]
    /\ now = 0
    /\ InitWorkers
    /\ InitRequests(MaxEnqueues)

NextStore ==
    \/ \E w \in StoreWorkers : WorkerStep(w)
    \/ InlineCreate
    \/ InlineStep2
    \/ InlineFinal
    \/ checkExistingBatchesSelect
    \/ checkExistingBatchesUpdate
    \/ createSmartBatches

SpecStore == InitStore /\ [][NextStore]_vars

----------------------------------------------------------------------------
(* One direct call claimProductBatches("s1", "w1", limit) with nothing else
   running, over a store of the caller's seller's PENDING rows, PROCESSING
   rows started 9, 10 or 11 minutes ago, and another seller's PENDING rows *)

\* the exported function called directly
DirectClaim(w) ==
    /\ pc[w] = "idle"
    /\ \E l \in 1..MaxCallLimit : claimProductBatches(w, "s1", l)
    /\ UNCHANGED <<batches, now, batchIndex, loopCount, edgeVars, enqVars,
                   callVars>>

StartedRow(i, age) ==
    [seller_id |-> "s2", status |-> "PROCESSING", processing_by |-> "w0",
     worker_id |-> NULL, started_at |-> 0 - age, created_at |-> OldCreated,
     priority |-> "HIGH"]

TierRow(i, nOwn, nStarted, age) ==
    IF i <= nOwn THEN [QueuedRow(i, 0, "HIGH") EXCEPT !.seller_id = "s1"]
    ELSE IF i <= nOwn + nStarted THEN StartedRow(i, age)
    ELSE [QueuedRow(i, 0, "HIGH") EXCEPT !.seller_id = "s2"]

InitTiers ==
    /\ \E nOwn \in 0..MaxOwn, nStarted \in 0..MaxOrphans, nCross \in 0..MaxCross,
          age \in {ORPHAN_MINUTES - 1, ORPHAN_MINUTES, ORPHAN_MINUTES + 1} :
          batches = [i \in 1..(nOwn + nStarted + nCross) |->
                        TierRow(i, nOwn, nStarted, age)]
    /\ now = 0
    /\ InitWorkers
    /\ InitRequests(0)

NextTiers ==
    \/ DirectClaim("w1")
    \/ claimAssignedSellerSelect("w1")
    \/ claimAssignedSellerUpdate("w1")
    \/ claimOrphanedBatchesSelect("w1")
    \/ claimOrphanedBatchesUpdate("w1")
    \/ claimCrossSellerBatchesSelect("w1")
    \/ claimCrossSellerBatchesUpdate("w1")

SpecTiers == InitTiers /\ [][NextTiers]_vars

----------------------------------------------------------------------------
(* One direct claim call while enqueue requests insert rows: the rounds *)

InitRounds ==
    /\ \E orphan \in BOOLEAN :
          batches = [i \in 1..1 |-> IF orphan THEN OrphanRow(i, OldCreated)
                                    ELSE QueuedRow(i, OldCreated, "HIGH")]
    /\ now = 0
    /\ InitWorkers
    /\ InitRequests(MaxEnqueues + 1)

NextRounds ==
    \/ DirectClaim("w1")
    \/ claimAssignedSellerSelect("w1")
    \/ claimAssignedSellerUpdate("w1")
    \/ claimOrphanedBatchesSelect("w1")
    \/ claimOrphanedBatchesUpdate("w1")
    \/ claimCrossSellerBatchesSelect("w1")
    \/ claimCrossSellerBatchesUpdate("w1")
    \/ checkExistingBatchesSelect
    \/ checkExistingBatchesUpdate
    \/ createSmartBatches

SpecRounds == InitRounds /\ [][NextRounds]_vars

----------------------------------------------------------------------------
(* The system over a store whose first row was claimed by a run that died
   more than ten minutes ago *)

InitOrphans ==
    /\ batches = [i \in 1..NumInitBatches |->
                     IF i = 1 THEN OrphanRow(i, OldCreated)
                     ELSE QueuedRow(i, 0, "HIGH")]
    /\ now = 0
    /\ InitWorkers
    /\ InitRequests(0)

SpecOrphans == InitOrphans /\ [][Next]_vars

----------------------------------------------------------------------------
(* Storage errors.  claimProductBatches of _shared/queue.ts tests the error of
   every select and update; claimProductBatches of the database module, the
   one the worker imports, claims with one filtered update per tier on the
   column worker_id and tests the error of that update. *)

\* the select of a tier reports an error
claimSelectError(w) ==
    /\ pc[w] \in {"select1", "select2", "select3"}
    /\ pc' = [pc EXCEPT ![w] = "selectError"]
    /\ UNCHANGED <<batches, now, sellerId, limit, remainingCapacity, attemptCount,
                   claimedThisRound, totalClaimed, batchesToClaim, batchIndex,
                   loopCount, edgeVars, enqVars,
                   callVars>>

\* the update of a tier reports an error
claimUpdateError(w) ==
    /\ pc[w] \in {"update1", "update2", "update3"}
    /\ pc' = [pc EXCEPT ![w] = "updateError"]
    /\ UNCHANGED <<batches, now, sellerId, limit, remainingCapacity, attemptCount,
                   claimedThisRound, totalClaimed, batchesToClaim, batchIndex,
                   loopCount, edgeVars, enqVars,
                   callVars>>

\* if (selectError) throw selectError;  if (error) throw error;
claimThrow(w) ==
    /\ pc[w] \in {"selectError", "updateError"}
    /\ EndRun(w, "threw")
    /\ UNCHANGED <<batches, now, edgeVars, enqVars,
                   callVars>>

DbPc(tier) == CASE tier = 1 -> "db1" [] tier = 2 -> "db2" [] tier = 3 -> "db3"
DbErrorPc(tier) == CASE tier = 1 -> "dbError1" [] tier = 2 -> "dbError2" [] tier = 3 -> "dbError3"

\* the position of the database module's call that corresponds to p
DbOf(p) ==
    CASE p = "select1" -> "db1" [] p = "select2" -> "db2" [] p = "select3" -> "db3"
      [] OTHER -> p

\* the filters of the three updates
DbCandidates(tier, s) ==
    CASE tier = 1 -> {b \in BatchIds : /\ batches[b].seller_id = s
                                       /\ batches[b].status = "PENDING"
                                       /\ batches[b].worker_id = NULL}
      [] tier = 2 -> {b \in BatchIds : /\ batches[b].status = "PROCESSING"
                                       /\ batches[b].worker_id # NULL
                                       /\ batches[b].started_at # NoTime
                                       /\ batches[b].started_at < now - ORPHAN_MINUTES}
      [] tier = 3 -> {b \in BatchIds : /\ batches[b].status = "PENDING"
                                       /\ batches[b].seller_id # s
                                       /\ batches[b].worker_id = NULL}

\* .order('created_at', asc) in tiers 1 and 3, .order('started_at', asc) in tier 2
DbKey(tier, b) == IF tier = 2 THEN batches[b].started_at ELSE batches[b].created_at

\* .limit(k) after the ordering
DbTopK(cands, k, tier) ==
    {S \in SUBSET cands :
        /\ Cardinality(S) = Min(k, Cardinality(cands))
        /\ \A x \in S, y \in cands \ S : DbKey(tier, x) <= DbKey(tier, y)}

RECURSIVE DbRows(_, _)
DbRows(S, tier) ==
    IF S = {} THEN <<>>
    ELSE LET x == CHOOSE x \in S : \A y \in S \ {x} :
                      \/ DbKey(tier, x) < DbKey(tier, y)
                      \/ DbKey(tier, x) = DbKey(tier, y) /\ x < y
         IN <<x>> \o DbRows(S \ {x}, tier)

\* .update({status: PROCESSING, worker_id, started_at}) of the filtered rows
DbClaimUpdate(ids, w) ==
    [b \in BatchIds |-> IF b \in ids
        THEN [batches[b] EXCEPT !.worker_id = w, !.status = "PROCESSING",
                                !.started_at = now]
        ELSE batches[b]]

DbContinue(w, tier, rem, round) ==
    LET n == AfterTier(w, tier, rem, round) IN
    /\ pc' = [pc EXCEPT ![w] = DbOf(n.pc)]
    /\ attemptCount' = [attemptCount EXCEPT ![w] = n.attemptCount]
    /\ claimedThisRound' = [claimedThisRound EXCEPT ![w] = n.claimedThisRound]
    /\ totalClaimed' = [totalClaimed EXCEPT ![w] = n.totalClaimed]
    /\ remainingCapacity' = [remainingCapacity EXCEPT ![w] = rem]

\* one tier of the database module: the filtered update, or its error
DbTier(w, tier) ==
    /\ pc[w] = DbPc(tier)
    /\ \/ \E S \in DbTopK(DbCandidates(tier, sellerId[w]), remainingCapacity[w], tier) :
             /\ batches' = DbClaimUpdate(S, w)
             /\ LET step == Tagged(DbRows(S, tier), tier) IN
                   DbContinue(w, tier, Remaining(remainingCapacity[w], step),
                              claimedThisRound[w] \o step)
       \/ /\ pc' = [pc EXCEPT ![w] = DbErrorPc(tier)]
          /\ UNCHANGED <<batches, attemptCount, claimedThisRound, totalClaimed,
                         remainingCapacity>>
    /\ UNCHANGED <<now, sellerId, limit, batchesToClaim, batchIndex, loopCount,
                   edgeVars, enqVars,
                   callVars>>

databaseClaimAssignedSeller(w) == pc[w] = "db1" /\ DbTier(w, 1)
databaseClaimOrphanedBatches(w) == pc[w] = "db2" /\ DbTier(w, 2)
databaseClaimCrossSellerBatches(w) == pc[w] = "db3" /\ DbTier(w, 3)

\* if (error) { console.error(...); return []; }
databaseTierReturnsEmpty(w) ==
    /\ \E tier \in 1..3 :
          /\ pc[w] = DbErrorPc(tier)
          /\ DbContinue(w, tier, remainingCapacity[w], claimedThisRound[w])
    /\ UNCHANGED <<batches, now, sellerId, limit, batchesToClaim, batchIndex,
                   loopCount, edgeVars, enqVars,
                   callVars>>

\* entry of the database module's claimProductBatches, called directly
databaseClaimProductBatches(w) ==
    /\ pc[w] = "idle"
    /\ \E l \in 1..MaxLimit :
          /\ sellerId' = [sellerId EXCEPT ![w] = "s1"]
          /\ limit' = [limit EXCEPT ![w] = l]
          /\ remainingCapacity' = [remainingCapacity EXCEPT ![w] = l]
          /\ pc' = [pc EXCEPT ![w] = IF LoopCondition(l, 0) THEN "db1" ELSE "returned"]
    /\ UNCHANGED <<batches, now, attemptCount, claimedThisRound, totalClaimed,
                   batchesToClaim, batchIndex, loopCount, edgeVars, enqVars,
                   callVars>>

\* a row claimed through the database module by a run that died
DbOrphanRow(i, t) ==
    [OrphanRow(i, t) EXCEPT !.processing_by = NULL, !.worker_id = "w0"]

InitFaults ==
    /\ \E byDatabase \in BOOLEAN :
          batches = [i \in 1..(NumInitBatches + 1) |->
                        IF i > NumInitBatches
                        THEN (IF byDatabase THEN DbOrphanRow(i, OldCreated)
                              ELSE OrphanRow(i, OldCreated))
                        ELSE QueuedRow(i, 0, "HIGH")]
    /\ now = 0
    /\ InitWorkers
    /\ InitRequests(0)

NextFaults ==
    \/ DirectClaim("w1")
    \/ claimAssignedSellerSelect("w1")
    \/ claimAssignedSellerUpdate("w1")
    \/ claimOrphanedBatchesSelect("w1")
    \/ claimOrphanedBatchesUpdate("w1")
    \/ claimCrossSellerBatchesSelect("w1")
    \/ claimCrossSellerBatchesUpdate("w1")
    \/ claimSelectError("w1")
    \/ claimUpdateError("w1")
    \/ claimThrow("w1")
    \/ databaseClaimProductBatches("w2")
    \/ databaseClaimAssignedSeller("w2")
    \/ databaseClaimOrphanedBatches("w2")
    \/ databaseClaimCrossSellerBatches("w2")
    \/ databaseTierReturnsEmpty("w2")

SpecFaults == InitFaults /\ [][NextFaults]_vars

----------------------------------------------------------------------------
(* Direct calls of both implementations over PENDING rows of either priority
   and of two creation times, and one orphaned row *)

InitPriority ==
    /\ \E prio \in [1..(NumInitBatches + 1) -> Priorities],
          made \in [1..(NumInitBatches + 1) -> {0 - 2, 0 - 1}] :
          batches = [i \in 1..(NumInitBatches + 2) |->
                        IF i > NumInitBatches + 1 THEN OrphanRow(i, OldCreated)
                        ELSE QueuedRow(i, made[i], prio[i])]
    /\ now = 0
    /\ InitWorkers
    /\ InitRequests(0)

NextPriority ==
    \/ DirectClaim("w1")
    \/ claimAssignedSellerSelect("w1")
    \/ claimAssignedSellerUpdate("w1")
    \/ claimOrphanedBatchesSelect("w1")
    \/ claimOrphanedBatchesUpdate("w1")
    \/ claimCrossSellerBatchesSelect("w1")
    \/ claimCrossSellerBatchesUpdate("w1")
    \/ databaseClaimProductBatches("w2")
    \/ databaseClaimAssignedSeller("w2")
    \/ databaseClaimOrphanedBatches("w2")
    \/ databaseClaimCrossSellerBatches("w2")
    \/ databaseTierReturnsEmpty("w2")

SpecPriority == InitPriority /\ [][NextPriority]_vars

----------------------------------------------------------------------------
(* Routing: shouldUseQueue and getProcessingRoute (_domain/routing.ts) *)

MAX_NEW_PRODUCTS == 3000
EDGE_THRESHOLD == 50
Undefined == 0 - 1           \* an argument left out

ProductCounts ==
    {0 - 2, 0, 1, 10, 19, 20, 21, 30, 49, 50, 51, 74, 75, 76, 100,
     MAX_NEW_PRODUCTS - 1, MAX_NEW_PRODUCTS, MAX_NEW_PRODUCTS + 1}
TokenPercents == {Undefined, 0, 20, 29, 30, 50, 80, 81, 90, 100}
RecentUsages == {Undefined, 0, 2000, 2001, 2500}

\* the reason string, as the list of the phrases it is joined from
Decision(route, reason, threshold) ==
    [route |-> route, reason |-> reason, threshold |-> threshold]

\* route 'queue': `Queue processing: ${reasons.join(', ')}` when a rule pushed
\* a reason, else `Product count (n) exceeds threshold (t)`;
\* route 'edge': `Edge processing: Product count (n) within threshold (t)`
Routed(productCount, reasons, threshold) ==
    IF productCount > threshold
    THEN Decision("queue", IF Len(reasons) > 0 THEN <<"Queue processing">> \o reasons
                           ELSE <<"exceeds threshold">>, threshold)
    ELSE Decision("edge", <<"within threshold">>, threshold)

shouldUseQueueNoHeavyRule(productCount, tokenPercent, recentUsage) ==
    IF productCount <= 0 THEN Decision("skip", <<"none">>, 0)
    ELSE IF productCount > MAX_NEW_PRODUCTS
    THEN Decision("skip", <<"max">>, MAX_NEW_PRODUCTS)
    ELSE LET t == IF tokenPercent # Undefined /\ tokenPercent < 30 THEN 20
                  ELSE IF tokenPercent # Undefined /\ tokenPercent > 80 THEN 75
                  ELSE EDGE_THRESHOLD
         IN Routed(productCount, <<>>, t)

shouldUseQueueHeavyFirst(productCount, tokenPercent, recentUsage) ==
    IF productCount <= 0 THEN Decision("skip", <<"none">>, 0)
    ELSE IF productCount > MAX_NEW_PRODUCTS
    THEN Decision("skip", <<"max">>, MAX_NEW_PRODUCTS)
    ELSE LET h == IF recentUsage # Undefined /\ recentUsage > 2000
                  THEN Min(EDGE_THRESHOLD, 20) ELSE EDGE_THRESHOLD
             t == IF tokenPercent # Undefined /\ tokenPercent < 30 THEN 20
                  ELSE IF tokenPercent # Undefined /\ tokenPercent > 80 THEN 75
                  ELSE h
         IN Routed(productCount, <<>>, t)

shouldUseQueueCeilingExclusive(productCount, tokenPercent, recentUsage) ==
    IF productCount <= 0 THEN Decision("skip", <<"none">>, 0)
    ELSE IF productCount >= MAX_NEW_PRODUCTS
    THEN Decision("skip", <<"max">>, MAX_NEW_PRODUCTS)
    ELSE shouldUseQueueNoHeavyRule(productCount, tokenPercent, Undefined)

shouldUseQueue(productCount, tokenPercent, recentUsage) ==
    IF productCount <= 0 THEN Decision("skip", <<"none">>, 0)
    ELSE IF productCount > MAX_NEW_PRODUCTS
    THEN Decision("skip", <<"max">>, MAX_NEW_PRODUCTS)
    ELSE LET low == tokenPercent # Undefined /\ tokenPercent < 30
             high == tokenPercent # Undefined /\ ~low /\ tokenPercent > 80
             heavy == recentUsage # Undefined /\ recentUsage > 2000
             byFill == IF low THEN 20 ELSE IF high THEN 75 ELSE EDGE_THRESHOLD
             dynamicThreshold == IF heavy THEN Min(byFill, 20) ELSE byFill
             reasons == (IF low THEN <<"low">> ELSE IF high THEN <<"high">> ELSE <<>>)
                        \o (IF heavy THEN <<"heavy">> ELSE <<>>)
         IN Routed(productCount, reasons, dynamicThreshold)

getProcessingRouteNoActiveCheck(productCount, hasActiveBatch) ==
    IF productCount <= 0 THEN "skip"
    ELSE shouldUseQueue(productCount, Undefined, Undefined).route

getProcessingRoute(productCount, hasActiveBatch) ==
    IF productCount <= 0 THEN "skip"
    ELSE IF hasActiveBatch THEN "queue"
    ELSE shouldUseQueue(productCount, Undefined, Undefined).route

\* everything but the call is at rest
Quiet ==
    /\ batches = <<>>
    /\ now = 0
    /\ InitWorkers
    /\ InitRequestVars(0)

QuietVars == <<batches, now, workerVars, edgeVars, enqVars, lookup, proc, dispatch, auxVars>>

InitRouting ==
    /\ Quiet
    /\ result = NoCall
    /\ \/ \E n \in ProductCounts, t \in TokenPercents, u \in RecentUsages :
             args = [fn |-> "shouldUseQueue", productCount |-> n,
                     tokenPercent |-> t, recentUsage |-> u]
       \/ \E n \in ProductCounts, a \in BOOLEAN :
             args = [fn |-> "getProcessingRoute", productCount |-> n,
                     hasActiveBatch |-> a]

shouldUseQueueCall ==
    /\ args # NoCall
    /\ args.fn = "shouldUseQueue"
    /\ result = NoCall
    /\ result' = shouldUseQueue(args.productCount, args.tokenPercent, args.recentUsage)
    /\ UNCHANGED <<args, QuietVars>>

getProcessingRouteCall ==
    /\ args # NoCall
    /\ args.fn = "getProcessingRoute"
    /\ result = NoCall
    /\ result' = [route |-> getProcessingRoute(args.productCount, args.hasActiveBatch)]
    /\ UNCHANGED <<args, QuietVars>>

NextRouting ==
    \/ shouldUseQueueCall
    \/ getProcessingRouteCall

SpecRouting == InitRouting /\ [][NextRouting]_vars

----------------------------------------------------------------------------
(* The seller lookup handler: getNetworkProcessingDecision, then the route by
   ROUTING_THRESHOLD to enqueueProductBatches or to the inline
   processProductBatch.  Two requests for the same seller run concurrently. *)

ROUTING_THRESHOLD == 50
LookupSeller == "s1"
MaxLookupBatches == 4
NewAsinCounts == {0, ROUTING_THRESHOLD, ROUTING_THRESHOLD + 1}

\* .single(): the row when the query matches exactly one row, otherwise an
\* error and data = null.  The result is a set of at most one id.
Single(rows) == IF Cardinality(rows) = 1 THEN rows ELSE {}

\* .eq('seller_id', sellerUuid).in('status', ['PENDING', 'PROCESSING']).single()
ActiveBatch(s) == Single(ExistingBatches(s))

SetLookup(r, p, n, b) ==
    lookup' = [lookup EXCEPT ![r] = [pc |-> p, newCount |-> n, batchId |-> b]]

LookupRest == <<now, workerVars, edgeVars, args, result, proc, dispatch, auxVars>>

\* the request arrives; the handler reads activeBatch and returns
\* NETWORK_PROCESSING_IN_PROGRESS when it is set
lookupActiveBatch(r) ==
    /\ lookup[r].pc = "idle"
    /\ SetLookup(r, IF ActiveBatch(LookupSeller) # {} THEN "inProgress" ELSE "findNew", 0, 0)
    /\ UNCHANGED <<batches, enqVars, LookupRest>>

\* findNewAsins over the request's asinList: NO_NEW_ASINS when none is new
\* (no batch of the model sets available_for_confirmation, so that lookup
\* finds nothing)
lookupFindNewAsins(r) ==
    /\ lookup[r].pc = "findNew"
    /\ \E n \in NewAsinCounts :
          SetLookup(r, IF n = 0 THEN "upToDate" ELSE "route", n, 0)
    /\ UNCHANGED <<batches, enqVars, LookupRest>>

\* shouldQueue = newAsinsToProcess.length > ROUTING_THRESHOLD
shouldQueue(r) == lookup[r].newCount > ROUTING_THRESHOLD

\* else branch: processProductBatch(..., {source: 'EDGE', createBatch: true}),
\* Step 1: the insert of the batch record, or its failure
lookupInlineCreate(r) ==
    /\ lookup[r].pc = "route"
    /\ ~shouldQueue(r)
    /\ Cardinality(BatchIds) < MaxLookupBatches
    /\ \/ /\ batches' = batches @@ (NewId :> InlineRow(LookupSeller, "HIGH"))
          /\ SetLookup(r, "step2", lookup[r].newCount, NewId)
       \/ /\ UNCHANGED batches
          /\ SetLookup(r, "done", lookup[r].newCount, 0)
    /\ UNCHANGED <<enqVars, LookupRest>>

lookupInlineStep2(r) ==
    /\ lookup[r].pc = "step2"
    /\ batches' = ProcessingUpdate(lookup[r].batchId)
    /\ SetLookup(r, "final", lookup[r].newCount, lookup[r].batchId)
    /\ UNCHANGED <<enqVars, LookupRest>>

\* the final update; a transient failure falls back to the queue
lookupInlineFinal(r) ==
    /\ lookup[r].pc = "final"
    /\ \/ /\ batches' = FinalUpdate(lookup[r].batchId, "COMPLETED")
          /\ SetLookup(r, "done", lookup[r].newCount, lookup[r].batchId)
       \/ /\ batches' = FinalUpdate(lookup[r].batchId, "FAILED")
          /\ \E p \in {"done", "fallback"} :
                SetLookup(r, p, lookup[r].newCount, lookup[r].batchId)
    /\ UNCHANGED <<enqVars, LookupRest>>

\* enqueueProductBatches(sellerUuid, newAsinsToProcess, ...): its first step,
\* checkExistingBatches for the request's seller
lookupEnqueue(r) ==
    /\ \/ lookup[r].pc = "route" /\ shouldQueue(r)
       \/ lookup[r].pc = "fallback"
    /\ enqPc \in {"idle", "done"}
    /\ SetLookup(r, "enqueue", lookup[r].newCount, lookup[r].batchId)
    /\ enqSeller' = LookupSeller
    /\ IF RecentBatches(LookupSeller) # {}
       THEN enqPc' = "done" /\ stuckBatches' = {}
       ELSE IF StuckBatches(LookupSeller) # {}
            THEN enqPc' = "cleanup" /\ stuckBatches' = StuckBatches(LookupSeller)
            ELSE enqPc' = "create" /\ stuckBatches' = {}
    /\ UNCHANGED <<batches, enqLeft, LookupRest>>

\* enqueueProductBatches has returned
lookupEnqueueReturn(r) ==
    /\ lookup[r].pc = "enqueue"
    /\ enqPc = "done"
    /\ SetLookup(r, "done", lookup[r].newCount, lookup[r].batchId)
    /\ UNCHANGED <<batches, enqVars, LookupRest>>

\* batches left by an earlier enqueue of the seller: none, or one to three
\* PENDING rows of one bulk insert, recent or older than the stuck threshold
LookupRow(t) ==
    [seller_id |-> LookupSeller, status |-> "PENDING", processing_by |-> NULL,
     worker_id |-> NULL, started_at |-> NoTime, created_at |-> t, priority |-> "HIGH"]

InitLookup ==
    /\ \E k \in 0..MaxBatches, t \in {0, 0 - (STUCK_MINUTES + 1)} :
          batches = [i \in 1..k |-> LookupRow(t)]
    /\ now = 0
    /\ InitWorkers
    /\ InitRequests(0)

NextLookup ==
    \/ \E r \in Requests : lookupActiveBatch(r)
    \/ \E r \in Requests : lookupFindNewAsins(r)
    \/ \E r \in Requests : lookupInlineCreate(r)
    \/ \E r \in Requests : lookupInlineStep2(r)
    \/ \E r \in Requests : lookupInlineFinal(r)
    \/ \E r \in Requests : lookupEnqueue(r)
    \/ \E r \in Requests : lookupEnqueueReturn(r)
    \/ checkExistingBatchesUpdate
    \/ createSmartBatches

SpecLookup == InitLookup /\ [][NextLookup]_vars

----------------------------------------------------------------------------
(* _domain/asins.ts: calculateBatchCount, splitIntoBatches *)

MaxItems == 5
Items == {"A", "B", "C", "D", "E"}
ItemLists == UNION {[1..n -> Items] : n \in 0..MaxItems}
MaxSizes == {0 - 1, 0, 1, 2, 3, MaxItems, MaxItems + 1}

\* Math.ceil(a / b) for a > 0, b > 0
Ceil(a, b) == IF a % b = 0 THEN a \div b ELSE a \div b + 1

calculateBatchCount(totalProducts, maxBatchSize) ==
    IF totalProducts <= 0 \/ maxBatchSize <= 0 THEN 0
    ELSE Ceil(totalProducts, maxBatchSize)

SliceThroughEnd(items, start, end) ==
    SubSeq(items, start + 1, Min(end + 1, Len(items)))

\* items.slice(start, end) for 0 <= start <= end: indices start .. end - 1,
\* cut at the end of the array
Slice(items, start, end) == SubSeq(items, start + 1, Min(end, Len(items)))

\* for (let i = 0; i < items.length; i += maxSize) batches.push(items.slice(i, i + maxSize))
RECURSIVE SplitLoop(_, _, _)
SplitLoop(items, maxSize, i) ==
    IF i < Len(items)
    THEN <<Slice(items, i, i + maxSize)>> \o SplitLoop(items, maxSize, i + maxSize)
    ELSE <<>>

splitIntoBatches(items, maxSize) ==
    IF Len(items) = 0 \/ maxSize <= 0 THEN <<>>
    ELSE SplitLoop(items, maxSize, 0)

InitSplit ==
    /\ Quiet
    /\ result = NoCall
    /\ \E items \in ItemLists, m \in MaxSizes :
          \/ args = [fn |-> "splitIntoBatches", items |-> items, maxSize |-> m]
          \/ args = [fn |-> "calculateBatchCount", totalProducts |-> Len(items) - 1,
                     maxBatchSize |-> m]

splitIntoBatchesCall ==
    /\ args # NoCall
    /\ args.fn = "splitIntoBatches"
    /\ result = NoCall
    /\ result' = [value |-> splitIntoBatches(args.items, args.maxSize)]
    /\ UNCHANGED <<args, QuietVars>>

calculateBatchCountCall ==
    /\ args # NoCall
    /\ args.fn = "calculateBatchCount"
    /\ result = NoCall
    /\ result' = [value |-> calculateBatchCount(args.totalProducts, args.maxBatchSize)]
    /\ UNCHANGED <<args, QuietVars>>

NextSplit ==
    \/ splitIntoBatchesCall
    \/ calculateBatchCountCall

SpecSplit == InitSplit /\ [][NextSplit]_vars

----------------------------------------------------------------------------
(* The delta detectors: findNewAsins (_shared/keepa.ts, and the same text in
   the database module) and determineNewAsins (_domain/asins.ts) *)

MaxCandidates == 3
Asins == {"B0A", "b0a", "B0B"}
AsinLists == UNION {[1..n -> Asins] : n \in 0..MaxCandidates}
DeltaBatchIds == {"p1", "p2"}
DeltaStatuses == {"PENDING", "PROCESSING", "COMPLETED"}
NewAsinLists == {<<"B0A">>, <<"B0B">>, <<"b0a", "B0B">>}
DeltaBatchRows == [seller_id : Sellers, status : DeltaStatuses, new_asins : NewAsinLists]

\* String.prototype.toUpperCase on the ASINs of the model
toUpperCase(asin) == IF asin = "b0a" THEN "B0A" ELSE asin

Range(list) == {list[i] : i \in DOMAIN list}

\* Array.prototype.filter
RECURSIVE Filter(_, _)
Filter(list, keep) ==
    IF list = <<>> THEN <<>>
    ELSE (IF Head(list) \in keep THEN <<Head(list)>> ELSE <<>>) \o Filter(Tail(list), keep)

\* Array.prototype.map(asin => asin.toUpperCase())
MapUpper(list) == [i \in DOMAIN list |-> toUpperCase(list[i])]

\* .from('product_batches').select('new_asins').eq('seller_id', sellerUuid)
\* .in('status', ['PENDING', 'PROCESSING'])
PendingBatches(sellerUuid, product_batches) ==
    {b \in DOMAIN product_batches :
        /\ product_batches[b].seller_id = sellerUuid
        /\ product_batches[b].status \in {"PENDING", "PROCESSING"}}

\* new Set(pendingBatches.flatMap(b => b.new_asins))
PendingAsins(sellerUuid, product_batches) ==
    UNION {Range(product_batches[b].new_asins) :
              b \in PendingBatches(sellerUuid, product_batches)}

findNewAsinsIgnorePersisted(sellerUuid, currentAsins, existingProducts, product_batches) ==
    LET pendingAsins == PendingAsins(sellerUuid, product_batches)
        trulyNewAsins == Filter(currentAsins, Asins \ pendingAsins)
    IN [newAsins |-> trulyNewAsins, newCount |-> Len(trulyNewAsins)]

\* existingProducts: the asin_id values the seller_products query returned
findNewAsins(sellerUuid, currentAsins, existingProducts, product_batches) ==
    LET existingAsins == existingProducts
        pendingAsins == PendingAsins(sellerUuid, product_batches)
        trulyNewAsins == Filter(currentAsins, Asins \ (existingAsins \cup pendingAsins))
    IN [newAsins |-> trulyNewAsins, newCount |-> Len(trulyNewAsins)]

determineNewAsins(existing, incoming) ==
    LET existingSet == {toUpperCase(asin) : asin \in existing}
    IN Filter(MapUpper(incoming), Asins \ existingSet)

InitDelta ==
    /\ Quiet
    /\ result = NoCall
    /\ \E c \in AsinLists, e \in SUBSET Asins :
          \/ \E pb \in [DeltaBatchIds -> DeltaBatchRows] :
                args = [fn |-> "findNewAsins", sellerUuid |-> LookupSeller,
                        currentAsins |-> c, existingProducts |-> e,
                        product_batches |-> pb, again |-> FALSE]
          \/ args = [fn |-> "determineNewAsins", existing |-> e, incoming |-> c,
                     again |-> FALSE]

findNewAsinsCall ==
    /\ args # NoCall
    /\ args.fn = "findNewAsins"
    /\ result = NoCall
    /\ result' = [value |-> findNewAsins(args.sellerUuid, args.currentAsins,
                                         args.existingProducts,
                                         args.product_batches).newAsins]
    /\ UNCHANGED <<args, QuietVars>>

determineNewAsinsCall ==
    /\ args # NoCall
    /\ args.fn = "determineNewAsins"
    /\ result = NoCall
    /\ result' = [value |-> determineNewAsins(args.existing, args.incoming)]
    /\ UNCHANGED <<args, QuietVars>>

\* the items found are persisted and the detector runs again on the same
\* candidates
findNewAsinsAgain ==
    /\ args # NoCall
    /\ args.fn = "findNewAsins"
    /\ result # NoCall
    /\ ~args.again
    /\ LET persisted == args.existingProducts \cup Range(result.value)
       IN /\ args' = [args EXCEPT !.existingProducts = persisted, !.again = TRUE]
          /\ result' = [value |-> findNewAsins(args.sellerUuid, args.currentAsins,
                                               persisted, args.product_batches).newAsins,
                        first |-> result.value]
    /\ UNCHANGED QuietVars

determineNewAsinsAgain ==
    /\ args # NoCall
    /\ args.fn = "determineNewAsins"
    /\ result # NoCall
    /\ ~args.again
    /\ LET persisted == args.existing \cup Range(result.value)
       IN /\ args' = [args EXCEPT !.existing = persisted, !.again = TRUE]
          /\ result' = [value |-> determineNewAsins(persisted, args.incoming),
                        first |-> result.value]
    /\ UNCHANGED QuietVars

NextDelta ==
    \/ findNewAsinsCall
    \/ determineNewAsinsCall
    \/ findNewAsinsAgain
    \/ determineNewAsinsAgain

SpecDelta == InitDelta /\ [][NextDelta]_vars

----------------------------------------------------------------------------
(* processProductBatch (_shared/batch-processor.ts) with fetchKeepaData and
   insertProducts (_shared/keepa.ts): one call, followed step by step.  The
   item list is modelled by its length. *)

KEEPA_API_BATCH_SIZE == 10
EDGE_FUNCTION_LIMIT == 50
MAX_BATCH_SIZE == 100
Sources == {"EDGE", "TRIGGER_DEV"}
AsinCounts == {0, 1, KEEPA_API_BATCH_SIZE + 1, EDGE_FUNCTION_LIMIT, EDGE_FUNCTION_LIMIT + 1,
               MAX_BATCH_SIZE, MAX_BATCH_SIZE + 1}

\* what a failed chunk request throws: its cause, its HTTP status (0: no
\* response) and the words of its message that the classification looks for.
\* An HTTP error's message is `Keepa API error: ${status} ${statusText} - ${body}`.
\* The message of a rejected fetch() is the runtime's and may or may not hold
\* the word "network"; a 429 response may or may not hold "rate limit".
FetchErrors ==
    {[cause |-> "timeout", status |-> 0, text |-> {"timeout"}],
     [cause |-> "network", status |-> 0, text |-> {"network"}],
     [cause |-> "rate limit", status |-> 0, text |-> {"rate limit"}],
     [cause |-> "network", status |-> 0, text |-> {"fetch failed"}],
     [cause |-> "rate limit", status |-> 429, text |-> {"429"}],
     [cause |-> "format", status |-> 0, text |-> {"Invalid Keepa API response format"}],
     [cause |-> "http", status |-> 400, text |-> {"400"}],
     [cause |-> "http", status |-> 500, text |-> {"500"}],
     [cause |-> "http", status |-> 502, text |-> {"502"}],
     [cause |-> "http", status |-> 503, text |-> {"503"}],
     [cause |-> "http", status |-> 504, text |-> {"504"}]}
NoFetchError == [cause |-> "none", status |-> 0, text |-> {}]

\* errorMessage.includes(word)
Includes(error, word) == word \in error.text

isTransientError(error) ==
    \E word \in {"timeout", "network", "rate limit", "503", "502"} : Includes(error, word)

\* chunks of KEEPA_API_BATCH_SIZE items, all requested concurrently
NumChunks(n) == Ceil(n, KEEPA_API_BATCH_SIZE)

\* the chunks whose request fails: none, one (the first or the last), or all
FailedChunkSets(k) == {{}, {1}, {k}, 1..k}

\* the products the API returns for n items: all, one fewer, or none
ReturnedCounts(n) == {n, n - 1, 0} \cap (0..n)

maxProductsSameForAll(source) == MAX_BATCH_SIZE

maxProducts(source) == IF source = "EDGE" THEN EDGE_FUNCTION_LIMIT ELSE MAX_BATCH_SIZE

\* errors: the number of messages in the result's error list;
\* errorType "none": the field is absent
NoResult == [success |-> FALSE, processedCount |-> 0 - 1, failedCount |-> 0 - 1,
             errors |-> 0, errorType |-> "none", canFallbackToQueue |-> FALSE,
             batchStatus |-> "none", batchId |-> 0]

ProcResult(success, processed, failed, errorType, fallback, batchStatus, batchId) ==
    [success |-> success, processedCount |-> processed, failedCount |-> failed,
     errors |-> IF errorType = "none" /\ failed = 0 THEN 0 ELSE 1,
     errorType |-> errorType, canFallbackToQueue |-> fallback,
     batchStatus |-> batchStatus, batchId |-> batchId]

ProcRest == <<now, workerVars, edgeVars, enqVars, args, result, lookup, dispatch, auxVars>>

Return(r) == proc' = [proc EXCEPT !.pc = "returned", !.ret = r]

FallbackNever(transient, source) == FALSE

\* canFallbackToQueue: isTransientError && opts.source === 'EDGE'
Fallback(transient, source) == transient /\ source = "EDGE"

\* the result returned after a fetch failure
FetchFailure ==
    ProcResult(FALSE, 0, proc.asins,
               IF isTransientError(proc.fetchError) THEN "TRANSIENT" ELSE "HARD",
               Fallback(isTransientError(proc.fetchError), proc.source),
               "FAILED", proc.batchId)

HardFailure(batchId) ==
    ProcResult(FALSE, 0, proc.asins, "HARD", FALSE, "FAILED", batchId)

\* Input validation, before the try block
processValidate ==
    /\ proc.pc = "called"
    /\ IF proc.asins = 0
       THEN Return(ProcResult(FALSE, 0, 0, "HARD", FALSE, "FAILED", proc.batchId))
       ELSE IF proc.asins > maxProducts(proc.source)
       THEN Return(ProcResult(FALSE, 0, 0, "HARD", proc.source = "EDGE", "FAILED",
                              proc.batchId))
       ELSE proc' = [proc EXCEPT !.pc = IF proc.createBatch THEN "step1" ELSE "step2"]
    /\ UNCHANGED <<batches, ProcRest>>

\* Step 1: the insert of the batch record
processStep1 ==
    /\ proc.pc = "step1"
    /\ batches' = batches @@ (NewId :> InlineRow(LookupSeller, "HIGH"))
    /\ proc' = [proc EXCEPT !.pc = "step2", !.batchId = NewId]
    /\ UNCHANGED ProcRest

\* Step 1, batchResult.error set
processStep1Error ==
    /\ proc.pc = "step1"
    /\ Return(HardFailure(0))
    /\ UNCHANGED <<batches, ProcRest>>

\* Step 2: the update to PROCESSING
processStep2 ==
    /\ proc.pc = "step2"
    /\ batches' = ProcessingUpdate(proc.batchId)
    /\ proc' = [proc EXCEPT !.pc = "step3"]
    /\ UNCHANGED ProcRest

\* Step 2, processingUpdate.error set: a warning, and on to Step 3
processStep2Error ==
    /\ proc.pc = "step2"
    /\ proc' = [proc EXCEPT !.pc = "step3", !.updateFailed = TRUE]
    /\ UNCHANGED <<batches, ProcRest>>

processFetchKeepsGoodChunks ==
    /\ proc.pc = "step3"
    /\ \E failed \in FailedChunkSets(NumChunks(proc.asins)) :
          IF failed # 1..NumChunks(proc.asins)
          THEN proc' = [proc EXCEPT !.pc = "step4",
                           !.products = Min(proc.asins, KEEPA_API_BATCH_SIZE
                              * (NumChunks(proc.asins) - Cardinality(failed))),
                           !.apiCalls = NumChunks(proc.asins),
                           !.fetchError = IF failed = {} THEN NoFetchError
                                          ELSE CHOOSE e \in FetchErrors : e.status = 500,
                           !.chunksOk = NumChunks(proc.asins) - Cardinality(failed)]
          ELSE \E e \in FetchErrors :
                  proc' = [proc EXCEPT !.pc = "fetchFailed", !.fetchError = e,
                                       !.apiCalls = NumChunks(proc.asins)]
    /\ UNCHANGED <<batches, ProcRest>>

\* Step 3: fetchKeepaData.  Promise.all over the chunk requests rejects when
\* one of them rejects.
processFetch ==
    /\ proc.pc = "step3"
    /\ \E failed \in FailedChunkSets(NumChunks(proc.asins)) :
          IF failed = {}
          THEN \E n \in ReturnedCounts(proc.asins) :
                  proc' = [proc EXCEPT !.pc = "step4", !.products = n,
                                       !.apiCalls = NumChunks(proc.asins),
                                       !.chunksOk = NumChunks(proc.asins)]
          ELSE \E e \in FetchErrors :
                  proc' = [proc EXCEPT !.pc = "fetchFailed", !.fetchError = e,
                                       !.apiCalls = NumChunks(proc.asins),
                                       !.chunksOk = NumChunks(proc.asins)
                                                       - Cardinality(failed)]
    /\ UNCHANGED <<batches, ProcRest>>

\* catch (keepaError): the update to FAILED and the failure result
processFetchFailed ==
    /\ proc.pc = "fetchFailed"
    /\ batches' = FinalUpdate(proc.batchId, "FAILED")
    /\ Return(FetchFailure)
    /\ UNCHANGED ProcRest

\* the same with the update reporting an error, which is not read
processFetchFailedUpdateError ==
    /\ proc.pc = "fetchFailed"
    /\ proc' = [proc EXCEPT !.pc = "returned", !.ret = FetchFailure, !.updateFailed = TRUE]
    /\ UNCHANGED <<batches, ProcRest>>

\* Step 4, insertProducts: the records are prepared (a product whose
\* preparation throws counts as failed) and phase 1 upserts the templates
insertProductsPhase1 ==
    /\ proc.pc = "step4"
    /\ \E prep \in {0, 1} \cap (0..proc.products) :
          LET valid == proc.products - prep
          IN IF valid = 0
             THEN proc' = [proc EXCEPT !.pc = "step5", !.failed = prep]
             ELSE \/ proc' = [proc EXCEPT !.pc = "phase2", !.valid = valid,
                                          !.failed = prep, !.templates = valid]
                  \/ proc' = [proc EXCEPT !.pc = "step5", !.valid = valid,
                                          !.failed = prep + valid]
    /\ UNCHANGED <<batches, ProcRest>>

insertProductsPhase2CountsLinked ==
    /\ proc.pc = "phase2"
    /\ \/ proc' = [proc EXCEPT !.pc = "step5", !.links = proc.valid,
                               !.success = proc.valid]
       \/ proc' = [proc EXCEPT !.pc = "step5", !.success = proc.valid]
    /\ UNCHANGED <<batches, ProcRest>>

\* phase 2 upserts the seller links: success += n, or on an error failed += n
insertProductsPhase2 ==
    /\ proc.pc = "phase2"
    /\ \/ proc' = [proc EXCEPT !.pc = "step5", !.links = proc.valid,
                               !.success = proc.valid]
       \/ proc' = [proc EXCEPT !.pc = "step5", !.failed = proc.failed + proc.valid]
    /\ UNCHANGED <<batches, ProcRest>>

\* insertProducts throws
insertProductsThrows ==
    /\ proc.pc \in {"step4", "phase2"}
    /\ proc' = [proc EXCEPT !.pc = "insertThrew"]
    /\ UNCHANGED <<batches, ProcRest>>

\* catch (insertError): the update to FAILED and the failure result
processInsertThrew ==
    /\ proc.pc = "insertThrew"
    /\ batches' = FinalUpdate(proc.batchId, "FAILED")
    /\ Return(HardFailure(proc.batchId))
    /\ UNCHANGED ProcRest

processInsertThrewUpdateError ==
    /\ proc.pc = "insertThrew"
    /\ proc' = [proc EXCEPT !.pc = "returned", !.ret = HardFailure(proc.batchId),
                            !.updateFailed = TRUE]
    /\ UNCHANGED <<batches, ProcRest>>

finalStatusAnySuccess(success, failed) ==
    IF success > 0 \/ failed = 0 THEN "COMPLETED" ELSE "FAILED"

\* Step 5
finalStatus(success, failed) ==
    IF success > 0 THEN (IF failed > 0 THEN "PARTIAL" ELSE "COMPLETED") ELSE "FAILED"

\* status: finalStatus === 'PARTIAL' ? 'COMPLETED' : finalStatus
StoredStatus(st) == IF st = "PARTIAL" THEN "COMPLETED" ELSE st

FinalResult ==
    ProcResult(proc.success > 0, proc.success, proc.failed, "none", FALSE,
               finalStatus(proc.success, proc.failed), proc.batchId)

\* Steps 5-7 and the return
processFinal ==
    /\ proc.pc = "step5"
    /\ batches' = FinalUpdate(proc.batchId,
                              StoredStatus(finalStatus(proc.success, proc.failed)))
    /\ proc' = [proc EXCEPT !.pc = "returned", !.ret = FinalResult,
                            !.sellerChecked = proc.success > 0]
    /\ UNCHANGED ProcRest

\* the same with the Step 6 update reporting an error, which is not read
processFinalUpdateError ==
    /\ proc.pc = "step5"
    /\ proc' = [proc EXCEPT !.pc = "returned", !.ret = FinalResult,
                            !.sellerChecked = proc.success > 0, !.updateFailed = TRUE]
    /\ UNCHANGED <<batches, ProcRest>>

\* the outer catch: an exception of any step inside the try block
processUnexpectedError ==
    /\ proc.pc \in {"step1", "step2", "step3", "step4", "phase2", "step5"}
    /\ batches' = FinalUpdate(proc.batchId, "FAILED")
    /\ Return(HardFailure(proc.batchId))
    /\ UNCHANGED ProcRest

\* the batch a queue-drain caller passes: claimed, PROCESSING
GivenRow ==
    [seller_id |-> LookupSeller, status |-> "PROCESSING", processing_by |-> "w1",
     worker_id |-> NULL, started_at |-> 0, created_at |-> 0, priority |-> "HIGH"]

InitProc(source, createBatch, n) ==
    [pc |-> "called", source |-> source, createBatch |-> createBatch,
     batchId |-> IF createBatch THEN 0 ELSE 1, asins |-> n,
     products |-> 0, fetchError |-> NoFetchError, chunksOk |-> 0,
     valid |-> 0, success |-> 0, failed |-> 0,
     apiCalls |-> 0, templates |-> 0, links |-> 0, sellerChecked |-> FALSE,
     updateFailed |-> FALSE, ret |-> NoResult]

InitProcessor ==
    /\ now = 0
    /\ InitWorkers
    /\ edgePc = "idle" /\ edgeBatch = 0
    /\ enqPc = "idle" /\ enqSeller = "s1" /\ stuckBatches = {} /\ enqLeft = 0
    /\ lookup = NoLookup /\ dispatch = NoDispatch
    /\ InitAux
    /\ args = NoCall /\ result = NoCall
    /\ \E source \in Sources, createBatch \in BOOLEAN, n \in AsinCounts :
          /\ proc = InitProc(source, createBatch, n)
          /\ batches = IF createBatch THEN <<>> ELSE <<GivenRow>>

NextProcessor ==
    \/ processValidate
    \/ processStep1
    \/ processStep2
    \/ processFetch
    \/ processFetchFailed
    \/ insertProductsPhase1
    \/ insertProductsPhase2
    \/ insertProductsThrows
    \/ processInsertThrew
    \/ processFinal
    \/ processUnexpectedError

SpecProcessor == InitProcessor /\ [][NextProcessor]_vars

\* the same call with a store whose writes to product_batches may report an
\* error
NextProcessorFaults ==
    \/ NextProcessor
    \/ processStep1Error
    \/ processStep2Error
    \/ processFetchFailedUpdateError
    \/ processInsertThrewUpdateError
    \/ processFinalUpdateError

SpecProcessorFaults == InitProcessor /\ [][NextProcessorFaults]_vars

\* ---------------------------------------------------------------------
\* enqueueProductBatches, Steps 3 and 4: the pre-flight count of executing
\* product-batches runs and the trigger of one run, for concurrent requests,
\* with the platform that starts queued runs of the task
\* ---------------------------------------------------------------------

\* `if (activeCount >= 3)`
ACTIVE_TASK_LIMIT == 3
\* queue: { concurrencyLimit: 3 } of the product-batches task
concurrencyLimit == 3
\* the most runs waiting to start that are followed
MaxQueued == 3
\* the most enqueue calls one request slot makes
MaxDispatches == 3

DispatchRest == <<batches, now, workerVars, edgeVars, enqVars, args, result, lookup, proc,
                  auxVars>>

SetRequest(r, rec) == dispatch' = [dispatch EXCEPT !.request[r] = rec]

\* checkActiveTaskCount with a runs client whose list call answers: the number
\* of EXECUTING runs at that moment
dispatchCheck(r) ==
    /\ dispatch.request[r].pc = "idle"
    /\ dispatch.request[r].calls < MaxDispatches
    /\ SetRequest(r, [dispatch.request[r] EXCEPT !.pc = "checked",
                         !.activeCount = dispatch.executing,
                         !.calls = @ + 1])
    /\ UNCHANGED <<DispatchRest>>

\* checkActiveTaskCount without a runs client, or with a list call that
\* throws: 0
dispatchCheckFails(r) ==
    /\ dispatch.request[r].pc = "idle"
    /\ dispatch.request[r].calls < MaxDispatches
    /\ SetRequest(r, [dispatch.request[r] EXCEPT !.pc = "checked",
                         !.activeCount = 0,
                         !.calls = @ + 1])
    /\ UNCHANGED <<DispatchRest>>

skipTriggerAbove(activeCount) == activeCount > ACTIVE_TASK_LIMIT

skipTrigger(activeCount) == activeCount >= ACTIVE_TASK_LIMIT

\* Step 3: return without a trigger
dispatchSkip(r) ==
    /\ dispatch.request[r].pc = "checked"
    /\ skipTrigger(dispatch.request[r].activeCount)
    /\ SetRequest(r, [dispatch.request[r] EXCEPT !.pc = "skipped"])
    /\ UNCHANGED <<DispatchRest>>

\* Step 4: tasks.trigger("product-batches", ...) creates a run
dispatchTrigger(r) ==
    /\ dispatch.request[r].pc = "checked"
    /\ ~skipTrigger(dispatch.request[r].activeCount)
    /\ dispatch.queued < MaxQueued
    /\ dispatch' = [dispatch EXCEPT !.request[r].pc = "triggered",
                                    !.queued = @ + 1]
    /\ UNCHANGED <<DispatchRest>>

\* Step 4: tasks.trigger throws; the result carries success false
dispatchTriggerFails(r) ==
    /\ dispatch.request[r].pc = "checked"
    /\ ~skipTrigger(dispatch.request[r].activeCount)
    /\ SetRequest(r, [dispatch.request[r] EXCEPT !.pc = "triggerFailed"])
    /\ UNCHANGED <<DispatchRest>>

\* the call has returned; the slot takes the next request
dispatchReturn(r) ==
    /\ dispatch.request[r].pc \in {"skipped", "triggered", "triggerFailed"}
    /\ SetRequest(r, [dispatch.request[r] EXCEPT !.pc = "idle"])
    /\ UNCHANGED <<DispatchRest>>

\* the platform starts a waiting run while fewer than concurrencyLimit of the
\* task's runs execute
runStart ==
    /\ dispatch.queued > 0
    /\ dispatch.executing < concurrencyLimit
    /\ dispatch' = [dispatch EXCEPT !.queued = @ - 1, !.executing = @ + 1]
    /\ UNCHANGED <<DispatchRest>>

\* a run ends
runEnd ==
    /\ dispatch.executing > 0
    /\ dispatch' = [dispatch EXCEPT !.executing = @ - 1]
    /\ UNCHANGED <<DispatchRest>>

InitDispatch ==
    /\ now = 0
    /\ InitWorkers
    /\ batches = <<>>
    /\ edgePc = "idle" /\ edgeBatch = 0
    /\ enqPc = "idle" /\ enqSeller = "s1" /\ stuckBatches = {} /\ enqLeft = 0
    /\ lookup = NoLookup /\ proc = NoProc
    /\ args = NoCall /\ result = NoCall
    /\ dispatch = NoDispatch
    /\ InitAux

NextDispatch ==
    \/ \E r \in Requests : dispatchCheck(r)
    \/ \E r \in Requests : dispatchCheckFails(r)
    \/ \E r \in Requests : dispatchSkip(r)
    \/ \E r \in Requests : dispatchTrigger(r)
    \/ \E r \in Requests : dispatchTriggerFails(r)
    \/ \E r \in Requests : dispatchReturn(r)
    \/ runStart
    \/ runEnd

SpecDispatch == InitDispatch /\ [][NextDispatch]_vars

\* ---------------------------------------------------------------------
\* enqueueProductBatches from Step 2 on, with the batches it creates and the
\* runs that drain them: dispatch.pending counts the PENDING batches
\* ---------------------------------------------------------------------

\* Step 2: createSmartBatches has inserted the request's batches
drainCreate(r) ==
    /\ dispatch.request[r].pc = "idle"
    /\ dispatch.request[r].calls < MaxDispatches
    /\ dispatch' = [dispatch EXCEPT !.request[r].pc = "created",
                                    !.request[r].calls = @ + 1,
                                    !.pending = @ + 1]
    /\ UNCHANGED <<DispatchRest>>

\* Step 3: checkActiveTaskCount (the EXECUTING runs, or 0 when the count
\* fails) and the decision to skip the trigger
drainCheck(r) ==
    /\ dispatch.request[r].pc = "created"
    /\ \E activeCount \in {dispatch.executing, 0} :
          SetRequest(r, [dispatch.request[r] EXCEPT
                            !.pc = IF skipTrigger(activeCount) THEN "skipped" ELSE "trigger",
                            !.activeCount = activeCount])
    /\ UNCHANGED <<DispatchRest>>

\* Step 4: triggerSingleProcessingJob creates a run, or catches the error of
\* tasks.trigger and reports success false
drainTrigger(r) ==
    /\ dispatch.request[r].pc = "trigger"
    /\ \/ /\ dispatch.queued < MaxQueued
          /\ dispatch' = [dispatch EXCEPT !.request[r].pc = "triggered", !.queued = @ + 1]
       \/ SetRequest(r, [dispatch.request[r] EXCEPT !.pc = "triggerFailed"])
    /\ UNCHANGED <<DispatchRest>>

\* the call has returned; the slot takes the next request
drainReturn(r) ==
    /\ dispatch.request[r].pc \in {"skipped", "triggered", "triggerFailed"}
    /\ SetRequest(r, [dispatch.request[r] EXCEPT !.pc = "idle"])
    /\ UNCHANGED <<DispatchRest>>

\* an executing run claims a PENDING batch (of any seller, by tier 1 or 3)
drainClaim ==
    /\ dispatch.executing > 0
    /\ dispatch.pending > 0
    /\ dispatch' = [dispatch EXCEPT !.pending = @ - 1]
    /\ UNCHANGED <<DispatchRest>>

NextDrain ==
    \/ \E r \in Requests : drainCreate(r)
    \/ \E r \in Requests : drainCheck(r)
    \/ \E r \in Requests : drainTrigger(r)
    \/ \E r \in Requests : drainReturn(r)
    \/ drainClaim
    \/ runStart
    \/ runEnd

SpecDrain == InitDispatch /\ [][NextDrain]_vars

----------------------------------------------------------------------------
(* TokenManager (_shared/tokens.ts): consumeTokens and refillTokens of
   concurrent callers on the one keepa_token_state row.  tokenState.ledger is
   a history value: the balance the calls account for, the initial tokens
   plus each refill applied (capped at max_tokens) minus the amount of each
   consumeTokens that returned true. *)

TokenRest == <<batches, now, workerVars, edgeVars, enqVars, args, result, lookup, proc,
               dispatch, sellerInfoCache, enqueue>>

\* amounts asked of consumeTokens: the tokens of one product and of two
TokenAmounts == {TOKENS_PER_PRODUCT, 2 * TOKENS_PER_PRODUCT}

\* Math.floor(elapsedMinutes * tokens_per_minute) for 0 and 1 minutes elapsed
TokensToAdd == {0, REGEN_RATE}

\* the balances the row starts with
InitialTokens == {0, TOKENS_PER_PRODUCT, 2 * TOKENS_PER_PRODUCT, BUCKET_SIZE - TOKENS_PER_PRODUCT}

SetCall(r, rec) == tokenState' = [tokenState EXCEPT !.call[r] = rec]

\* consumeTokens up to the update: the select of current_tokens and
\* is_circuit_breaker_open, and the two early returns of false
consumeTokensSelect(r) ==
    /\ tokenState.call[r].pc = "idle"
    /\ tokenState.call[r].calls < MaxTokenCalls
    /\ \E amount \in TokenAmounts :
          LET c == [tokenState.call[r] EXCEPT !.calls = @ + 1, !.amount = amount,
                                              !.read = tokenState.current_tokens]
          IN IF tokenState.is_circuit_breaker_open \/ tokenState.current_tokens < amount
             THEN SetCall(r, [c EXCEPT !.pc = "returned", !.returned = FALSE])
             ELSE SetCall(r, [c EXCEPT !.pc = "consume"])
    /\ UNCHANGED <<TokenRest>>

\* .update({current_tokens: read - amount}).eq('current_tokens', read).single()
\* and return !updateError.  When the filter matches no row nothing is written;
\* whether .single() on an update without .select() then reports an error
\* depends on the REST layer, so both answers are taken.
consumeTokensUpdate(r) ==
    LET c == tokenState.call[r] IN
    /\ c.pc = "consume"
    /\ IF tokenState.current_tokens = c.read
       THEN tokenState' = [tokenState EXCEPT
                              !.current_tokens = c.read - c.amount,
                              !.ledger = @ - c.amount,
                              !.call[r] = [c EXCEPT !.pc = "returned", !.returned = TRUE]]
       ELSE \E updateError \in BOOLEAN :
               tokenState' = [tokenState EXCEPT
                                 !.ledger = IF updateError THEN @ ELSE @ - c.amount,
                                 !.call[r] = [c EXCEPT !.pc = "returned",
                                                       !.returned = ~updateError]]
    /\ UNCHANGED <<TokenRest>>

\* refillTokens up to the update: getCurrentTokenState and tokensToAdd
refillTokensSelect(r) ==
    /\ tokenState.call[r].pc = "idle"
    /\ tokenState.call[r].calls < MaxTokenCalls
    /\ \E tokensToAdd \in TokensToAdd :
          LET c == [tokenState.call[r] EXCEPT !.calls = @ + 1, !.amount = tokensToAdd,
                                              !.read = tokenState.current_tokens]
          IN SetCall(r, [c EXCEPT !.pc = IF tokensToAdd > 0 THEN "refill" ELSE "returned",
                                  !.returned = FALSE])
    /\ UNCHANGED <<TokenRest>>

\* .update({current_tokens: Math.min(max_tokens, read + tokensToAdd)}).eq('id', id)
refillTokensUpdate(r) ==
    LET c == tokenState.call[r] IN
    /\ c.pc = "refill"
    /\ tokenState' = [tokenState EXCEPT
                         !.current_tokens = Min(tokenState.max_tokens, c.read + c.amount),
                         !.ledger = Min(tokenState.max_tokens, @ + c.amount),
                         !.call[r] = [c EXCEPT !.pc = "returned"]]
    /\ UNCHANGED <<TokenRest>>

\* the caller has its answer and may call again
tokenCallReturns(r) ==
    /\ tokenState.call[r].pc = "returned"
    /\ SetCall(r, [tokenState.call[r] EXCEPT !.pc = "idle"])
    /\ UNCHANGED <<TokenRest>>

InitTokens ==
    /\ now = 0
    /\ InitWorkers
    /\ batches = <<>>
    /\ edgePc = "idle" /\ edgeBatch = 0
    /\ enqPc = "idle" /\ enqSeller = "s1" /\ stuckBatches = {} /\ enqLeft = 0
    /\ lookup = NoLookup /\ proc = NoProc
    /\ args = NoCall /\ result = NoCall
    /\ dispatch = NoDispatch
    /\ sellerInfoCache = [w \in Workers |-> {}]
    /\ enqueue = NoEnqueue
    /\ \E t \in InitialTokens, open \in BOOLEAN :
          tokenState = [NoTokenState EXCEPT !.current_tokens = t, !.ledger = t,
                                            !.is_circuit_breaker_open = open]

NextTokens ==
    \/ \E r \in Requests : consumeTokensSelect(r)
    \/ \E r \in Requests : consumeTokensUpdate(r)
    \/ \E r \in Requests : refillTokensSelect(r)
    \/ \E r \in Requests : refillTokensUpdate(r)
    \/ \E r \in Requests : tokenCallReturns(r)

SpecTokens == InitTokens /\ [][NextTokens]_vars

\* ---------------------------------------------------------------------
\* productBatches.run in full: the claim through the database module, the
\* seller lookup, processProductBatch and the catch handler of each claimed
\* batch, and the soft deadline.  jobStartTime is minute 0.
\* ---------------------------------------------------------------------

\* maxDuration of isApproachingTimeout: 25 * 60 * 1000 ms
SOFT_DEADLINE_MINUTES == 25
\* claimProductBatches(supabase, payload.sellerId, workerId, 3)
RUN_CLAIM_LIMIT == 3
\* PENDING rows in the store when the run starts
NumRunBatches == 4
\* the minutes at which the run's clock is read after its start
RunInstants == {SOFT_DEADLINE_MINUTES, SOFT_DEADLINE_MINUTES + 1}

\* elapsed > maxDuration
isApproachingTimeout == now > SOFT_DEADLINE_MINUTES

RunRest == <<edgeVars, enqVars, args, result, lookup, proc, dispatch, enqueue, tokenState>>

\* while (hasMoreWork && !isApproachingTimeout()) { loopCount++; claim... }
runClaim(w) ==
    /\ pc[w] \in {"idle", "loop"}
    /\ ~isApproachingTimeout
    /\ loopCount' = [loopCount EXCEPT ![w] = @ + 1]
    /\ limit' = [limit EXCEPT ![w] = RUN_CLAIM_LIMIT]
    /\ remainingCapacity' = [remainingCapacity EXCEPT ![w] = RUN_CLAIM_LIMIT]
    /\ attemptCount' = [attemptCount EXCEPT ![w] = 0]
    /\ claimedThisRound' = [claimedThisRound EXCEPT ![w] = <<>>]
    /\ totalClaimed' = [totalClaimed EXCEPT ![w] = <<>>]
    /\ batchIndex' = [batchIndex EXCEPT ![w] = 0]
    /\ pc' = [pc EXCEPT ![w] = "db1"]
    /\ UNCHANGED <<batches, now, sellerId, batchesToClaim, sellerInfoCache, RunRest>>

\* the loop condition, or the check after a round, finds the deadline passed
runTimeout(w) ==
    /\ pc[w] \in {"idle", "loop"}
    /\ isApproachingTimeout
    /\ EndRun(w, "finished")
    /\ UNCHANGED <<batches, now, sellerInfoCache, RunRest>>

\* an empty claim ends the run; otherwise the for loop starts
runAfterClaim(w) ==
    /\ pc[w] = "returned"
    /\ IF totalClaimed[w] = <<>>
       THEN EndRun(w, "finished")
       ELSE /\ pc' = [pc EXCEPT ![w] = "sellerInfo"]
            /\ batchIndex' = [batchIndex EXCEPT ![w] = 1]
            /\ UNCHANGED <<sellerId, limit, remainingCapacity, attemptCount,
                           claimedThisRound, totalClaimed, batchesToClaim, loopCount>>
    /\ UNCHANGED <<batches, now, sellerInfoCache, RunRest>>

\* the next batch of the round, or the end of the round
NextBatch(w) ==
    /\ IF batchIndex[w] < Len(totalClaimed[w])
       THEN /\ batchIndex' = [batchIndex EXCEPT ![w] = @ + 1]
            /\ pc' = [pc EXCEPT ![w] = "sellerInfo"]
       ELSE /\ pc' = [pc EXCEPT ![w] = "loop"]
            /\ UNCHANGED batchIndex
    /\ UNCHANGED <<sellerId, limit, remainingCapacity, attemptCount,
                   claimedThisRound, totalClaimed, batchesToClaim, loopCount>>

\* getBatchSellerInfo(batch.seller_id), before the try block of the batch: a
\* cached seller is returned; otherwise the sellers row is read, and a read
\* that fails throws out of the for loop and the while loop to the handler
\* of run, which rethrows
runSellerInfo(w) ==
    /\ pc[w] = "sellerInfo"
    /\ LET s == batches[CurrentBatch(w)].seller_id IN
          \/ /\ sellerInfoCache' = [sellerInfoCache EXCEPT ![w] = @ \cup {s}]
             /\ pc' = [pc EXCEPT ![w] = "process"]
             /\ UNCHANGED <<sellerId, limit, remainingCapacity, attemptCount,
                            claimedThisRound, totalClaimed, batchesToClaim,
                            batchIndex, loopCount>>
          \/ /\ s \notin sellerInfoCache[w]
             /\ pc' = [pc EXCEPT ![w] = "threw"]
             /\ UNCHANGED <<sellerId, limit, remainingCapacity, attemptCount,
                            claimedThisRound, totalClaimed, batchesToClaim,
                            batchIndex, loopCount, sellerInfoCache>>
    /\ UNCHANGED <<batches, now, RunRest>>

\* processProductBatch(..., {batchId, source: 'TRIGGER_DEV'}): Step 2
runProcess(w) ==
    /\ pc[w] = "process"
    /\ batches' = ProcessingUpdate(CurrentBatch(w))
    /\ pc' = [pc EXCEPT ![w] = "final"]
    /\ UNCHANGED <<now, sellerId, limit, remainingCapacity, attemptCount,
                   claimedThisRound, totalClaimed, batchesToClaim, batchIndex,
                   loopCount, sellerInfoCache, RunRest>>

\* processProductBatch returns after its last status update
runFinal(w) ==
    /\ pc[w] = "final"
    /\ \E st \in {"COMPLETED", "FAILED"} : batches' = FinalUpdate(CurrentBatch(w), st)
    /\ NextBatch(w)
    /\ UNCHANGED <<now, sellerInfoCache, RunRest>>

\* processProductBatch throws
runProcessThrows(w) ==
    /\ pc[w] = "final"
    /\ pc' = [pc EXCEPT ![w] = "catch"]
    /\ UNCHANGED <<batches, now, sellerId, limit, remainingCapacity, attemptCount,
                   claimedThisRound, totalClaimed, batchesToClaim, batchIndex,
                   loopCount, sellerInfoCache, RunRest>>

\* catch (batchError): .update({status: 'FAILED', ...}).eq('id', batch.id)
runCatch(w) ==
    /\ pc[w] = "catch"
    /\ batches' = FinalUpdate(CurrentBatch(w), "FAILED")
    /\ NextBatch(w)
    /\ UNCHANGED <<now, sellerInfoCache, RunRest>>

\* time passes while the run is not inside a claim call
runTick ==
    /\ \A w \in Workers : pc[w] \notin {"db1", "db2", "db3", "threw", "finished"}
    /\ \E t \in RunInstants : t > now /\ now' = t
    /\ UNCHANGED <<batches, workerVars, sellerInfoCache, RunRest>>

\* PENDING rows of the run's seller and of another one, queued before the run
InitRun ==
    /\ batches = [i \in 1..NumRunBatches |-> QueuedRow(i, 0 - i, "HIGH")]
    /\ now = 0
    /\ InitWorkers
    /\ InitRequests(0)

NextRun ==
    \/ runClaim("w1")
    \/ databaseClaimAssignedSeller("w1")
    \/ databaseClaimOrphanedBatches("w1")
    \/ databaseClaimCrossSellerBatches("w1")
    \/ databaseTierReturnsEmpty("w1")
    \/ runAfterClaim("w1")
    \/ runSellerInfo("w1")
    \/ runProcess("w1")
    \/ runFinal("w1")
    \/ runProcessThrows("w1")
    \/ runCatch("w1")
    \/ runTimeout("w1")
    \/ runTick

SpecRun == InitRun /\ [][NextRun]_vars

\* ---------------------------------------------------------------------
\* Concurrent requests for one seller, each running findNewAsins over its
\* item list and then enqueueProductBatches: checkExistingBatches, the
\* stuck-batch update, createSmartBatches.  The rows carry new_asins.
\* ---------------------------------------------------------------------

\* the item lists of the requests
CurrentAsinLists == {<<"B0A">>, <<"B0A", "B0B">>}

\* the age in minutes of the batch an earlier request left: recent, neither
\* recent nor stuck, stuck
EarlierAges == {0, RECENT_MINUTES + 1, STUCK_MINUTES + 1}

ItemRow(s, t, items) ==
    [seller_id |-> s, status |-> "PENDING", processing_by |-> NULL, worker_id |-> NULL,
     started_at |-> NoTime, created_at |-> t, priority |-> "HIGH", new_asins |-> items]

DedupRest == <<now, workerVars, edgeVars, enqVars, args, result, lookup, proc, dispatch,
               sellerInfoCache, tokenState>>

SetEnqueue(r, p, items, stuck) ==
    enqueue' = [enqueue EXCEPT ![r] = [pc |-> p, newProducts |-> items, stuck |-> stuck]]

\* findNewAsins(sellerUuid, currentAsins): nothing new ends the request
enqueueFindNewAsins(r) ==
    /\ enqueue[r].pc = "idle"
    /\ \E currentAsins \in CurrentAsinLists :
          LET new == findNewAsins(LookupSeller, currentAsins, {}, batches).newAsins IN
          SetEnqueue(r, IF new = <<>> THEN "upToDate" ELSE "check", new, {})
    /\ UNCHANGED <<batches, DedupRest>>

\* Step 1, checkExistingBatches: recent batches block the creation, stuck ones
\* are cleaned up first, otherwise the creation proceeds
enqueueCheckExisting(r) ==
    /\ enqueue[r].pc = "check"
    /\ IF RecentBatches(LookupSeller) # {}
       THEN SetEnqueue(r, "skipped", enqueue[r].newProducts, {})
       ELSE IF StuckBatches(LookupSeller) # {}
            THEN SetEnqueue(r, "cleanup", enqueue[r].newProducts, StuckBatches(LookupSeller))
            ELSE SetEnqueue(r, "create", enqueue[r].newProducts, {})
    /\ UNCHANGED <<batches, DedupRest>>

\* .update({status: 'FAILED'}).in('id', stuckBatches.map(b => b.id))
enqueueCleanup(r) ==
    /\ enqueue[r].pc = "cleanup"
    /\ batches' = [b \in BatchIds |->
                      IF b \in enqueue[r].stuck THEN [batches[b] EXCEPT !.status = "FAILED"]
                      ELSE batches[b]]
    /\ SetEnqueue(r, "create", enqueue[r].newProducts, {})
    /\ UNCHANGED <<DedupRest>>

\* Step 2, createSmartBatches: the bulk insert (one batch, the lists being
\* shorter than BATCH_SIZE), or its failure
enqueueCreate(r) ==
    /\ enqueue[r].pc = "create"
    /\ \/ /\ batches' = batches @@
                (NewId :> ItemRow(LookupSeller, now, enqueue[r].newProducts))
          /\ SetEnqueue(r, "created", enqueue[r].newProducts, {})
       \/ /\ UNCHANGED batches
          /\ SetEnqueue(r, "failed", enqueue[r].newProducts, {})
    /\ UNCHANGED <<DedupRest>>

\* the store holds nothing of the seller, or one PENDING batch of an earlier
\* request
InitDedup ==
    /\ \/ batches = <<>>
       \/ \E age \in EarlierAges, items \in {<<"B0B">>, <<"b0a">>} :
             batches = <<ItemRow(LookupSeller, 0 - age, items)>>
    /\ now = 0
    /\ InitWorkers
    /\ InitRequests(0)

NextDedup ==
    \/ \E r \in Requests : enqueueFindNewAsins(r)
    \/ \E r \in Requests : enqueueCheckExisting(r)
    \/ \E r \in Requests : enqueueCleanup(r)
    \/ \E r \in Requests : enqueueCreate(r)

SpecDedup == InitDedup /\ [][NextDedup]_vars

----------------------------------------------------------------------------
(* createSmartBatches item by item, and Steps 2 to 4 of enqueueProductBatches
   around it (_shared/queue.ts) *)

\* lengths of the asinList argument: around one, two and three batches
AsinListLengths == {1, BATCH_SIZE - 1, BATCH_SIZE, BATCH_SIZE + 1, 2 * BATCH_SIZE,
                    2 * BATCH_SIZE + 1}

\* the list of n distinct items
AsinListOf(n) == [i \in 1..n |-> i]

totalBatchesFloor(n) == n \div BATCH_SIZE

\* const totalBatches = Math.ceil(asinList.length / BATCH_SIZE)
totalBatches(n) == Ceil(n, BATCH_SIZE)

\* allBatchRecords[i] of the loop (i counted from 1), with the columns the
\* store fills in
SmartBatchRecord(s, asinList, i) ==
    LET startIdx == (i - 1) * BATCH_SIZE
        endIdx == Min(startIdx + BATCH_SIZE, Len(asinList))
        batchSize == endIdx - startIdx
    IN [seller_id |-> s, status |-> "PENDING", processing_by |-> NULL, worker_id |-> NULL,
        started_at |-> NoTime, created_at |-> now,
        priority |-> IF Len(asinList) <= HIGH_PRIORITY_MAX THEN "HIGH" ELSE "LOW",
        product_count |-> batchSize,
        new_asins |-> SubSeq(asinList, startIdx + 1, endIdx),
        estimated_tokens |-> batchSize * ESTIMATED_TOKENS_PER_PRODUCT]

allBatchRecords(s, asinList) ==
    [i \in 1..totalBatches(Len(asinList)) |-> SmartBatchRecord(s, asinList, i)]

\* Step 2: createSmartBatches builds the records and inserts them in one
\* statement; when the insert reports an error nothing is stored, success is
\* false and enqueueProductBatches returns with no job triggered
smartCreate(r) ==
    /\ enqueue[r].pc = "idle"
    /\ \E n \in AsinListLengths :
          LET asinList == AsinListOf(n)
              records == allBatchRecords(LookupSeller, asinList)
              first == Cardinality(BatchIds)
          IN \/ /\ batches' = batches @@
                      [b \in (first + 1)..(first + Len(records)) |-> records[b - first]]
                /\ SetEnqueue(r, IF Len(records) > 0 THEN "created" ELSE "failed",
                              asinList, {})
             \/ /\ UNCHANGED batches
                /\ SetEnqueue(r, "failed", asinList, {})
    /\ UNCHANGED <<DedupRest>>

\* Step 3: the pre-flight check skips the trigger at ACTIVE_TASK_LIMIT runs
smartPreflight(r) ==
    /\ enqueue[r].pc = "created"
    /\ \E activeCount \in {0, ACTIVE_TASK_LIMIT} :
          SetEnqueue(r, IF skipTrigger(activeCount) THEN "skipped" ELSE "trigger",
                     enqueue[r].newProducts, {})
    /\ UNCHANGED <<batches, DedupRest>>

\* Step 4: triggerSingleProcessingJob
smartTrigger(r) ==
    /\ enqueue[r].pc = "trigger"
    /\ \E triggered \in BOOLEAN :
          SetEnqueue(r, IF triggered THEN "triggered" ELSE "triggerFailed",
                     enqueue[r].newProducts, {})
    /\ UNCHANGED <<batches, DedupRest>>

InitSmart ==
    /\ batches = <<>>
    /\ now = 0
    /\ InitWorkers
    /\ InitRequests(0)

NextSmart ==
    \/ \E r \in Requests : smartCreate(r)
    \/ \E r \in Requests : smartPreflight(r)
    \/ \E r \in Requests : smartTrigger(r)

SpecSmart == InitSmart /\ [][NextSmart]_vars

----------------------------------------------------------------------------
(* Properties *)

\* the list a claim call has returned to worker w, while w still holds it
Returned(w) ==
    IF pc[w] \in {"returned", "step2", "final", "loop"} THEN totalClaimed[w] ELSE <<>>

\* ids of a list that were claimed as PENDING rows (tiers 1 and 3)
PendingIds(list) == {list[i].id : i \in {j \in 1..Len(list) : list[j].tier # 2}}

UpdatePcs == {"update1", "update2", "update3"}

\* the step is the claim update of worker w and writes row b
IsClaimUpdate(w, b) ==
    /\ pc[w] \in UpdatePcs
    /\ pc'[w] # pc[w]
    /\ pc'[w] # "crashed"
    /\ b \in batchesToClaim[w]

\* C1: two claim calls with distinct worker ids never both return the same
\* batch id for a batch they claimed as a PENDING row.
C1_DistinctWorkersDisjoint ==
    \A w \in Workers : \A v \in Workers \ {w} :
        PendingIds(Returned(w)) \cap PendingIds(Returned(v)) = {}

\* C2: a PROCESSING batch held by worker W whose started_at is less than ten
\* minutes old keeps its holder in every step.
C2_FreshHolderKept ==
    [][\A b \in BatchIds :
          (/\ batches[b].status = "PROCESSING"
           /\ batches[b].processing_by \in Workers
           /\ now - batches[b].started_at < ORPHAN_MINUTES)
          => batches'[b].processing_by = batches[b].processing_by]_vars

\* the stores of SpecTiers as the direct call found them: the caller's
\* seller's PENDING rows, the orphaned rows, the other seller's PENDING rows
OwnRows == {b \in BatchIds : batches[b].seller_id = "s1"}

OrphanedRows ==
    {b \in BatchIds : /\ batches[b].created_at = OldCreated
                      /\ \/ batches[b].processing_by = "w1"
                         \/ now - batches[b].started_at > ORPHAN_MINUTES}

CrossRows == {b \in BatchIds : batches[b].seller_id = "s2" /\ batches[b].created_at = 0}

Tiers(list) == [i \in 1..Len(list) |-> list[i].tier]

TierIds(list, t) == {list[i].id : i \in {j \in 1..Len(list) : list[j].tier = t}}

\* C3: a call running alone fills its capacity in tier order: own-seller
\* PENDING rows first, then orphaned rows, then other sellers' PENDING rows,
\* each tier taking only the capacity the earlier tiers left.
C3_TierOrderFill ==
    pc["w1"] = "returned" =>
        LET k1 == Min(limit["w1"], Cardinality(OwnRows))
            k2 == Min(limit["w1"] - k1, Cardinality(OrphanedRows))
            k3 == Min(limit["w1"] - k1 - k2, Cardinality(CrossRows))
            list == totalClaimed["w1"]
        IN /\ Len(list) = k1 + k2 + k3
           /\ \A i \in 1..Len(list) :
                 list[i].tier = IF i <= k1 THEN 1 ELSE IF i <= k1 + k2 THEN 2 ELSE 3
           /\ TierIds(list, 1) \subseteq OwnRows
           /\ TierIds(list, 2) \subseteq OrphanedRows
           /\ TierIds(list, 3) \subseteq CrossRows
           /\ Cardinality(Ids(list)) = Len(list)

\* limit 5 against 2 own PENDING, 1 orphaned and 10 other-seller PENDING rows
\* has returned 2 own, 1 orphaned, 2 other-seller batches
C3_Witness ==
    /\ pc["w1"] = "returned"
    /\ limit["w1"] = 5
    /\ Cardinality(OwnRows) = 2
    /\ Cardinality(OrphanedRows) = 1
    /\ Cardinality(CrossRows) = 10
    /\ Tiers(totalClaimed["w1"]) = <<1, 1, 2, 3, 3>>

\* ids the claim call of worker w has collected so far
Held(w) == Ids(totalClaimed[w]) \cup Ids(claimedThisRound[w])

IsProcessorStep2(b) ==
    \/ \E w \in Workers : pc[w] = "step2" /\ pc'[w] = "final" /\ CurrentBatch(w) = b
    \/ edgePc = "step2" /\ edgePc' = "final" /\ edgeBatch = b

\* the step is the final status update of the processor on batch b
IsProcessorFinal(b) ==
    \/ \E w \in Workers : /\ pc[w] = "final"
                          /\ pc'[w] \in {"step2", "loop"}
                          /\ CurrentBatch(w) = b
    \/ edgePc = "final" /\ edgePc' = "done" /\ edgeBatch = b

\* the step is the stuck-batch update of checkExistingBatches and writes b
IsStuckCleanup(b) == enqPc = "cleanup" /\ enqPc' = "create" /\ b \in stuckBatches

IsOrphanSelect(w) == pc[w] = "select2" /\ pc'[w] \notin {"select2", "crashed"}

PcIndex(p) ==
    CASE p = "select1" -> 1 [] p = "update1" -> 2 [] p = "select2" -> 3
      [] p = "update2" -> 4 [] p = "select3" -> 5 [] p = "update3" -> 6

\* claim steps a call can still take: six per round not yet started, and
\* the rest of the current one
StepsLeft(w) == (maxAttempts - attemptCount[w]) * 6 - PcIndex(pc[w])

\* C10: a claim call runs at most three rounds.  While it runs it has
\* capacity left and fewer than three rounds behind it; it starts another
\* round only after a round that claimed something; it returns after an empty
\* round, with the limit exhausted, or after the third round; and every step
\* of the call lowers the bounded count of steps it can still take.
C10_AtMostThreeRounds ==
    /\ [](\A w \in Workers :
            /\ attemptCount[w] <= maxAttempts
            /\ pc[w] \in ClaimPcs =>
                  /\ attemptCount[w] < maxAttempts
                  /\ remainingCapacity[w] > 0
                  /\ StepsLeft(w) >= 0)
    /\ [][\A w \in Workers :
             (pc[w] \in ClaimPcs /\ pc'[w] \in ClaimPcs /\ pc'[w] # pc[w]) =>
                /\ StepsLeft(w)' < StepsLeft(w)
                /\ attemptCount'[w] # attemptCount[w] =>
                      /\ attemptCount'[w] = attemptCount[w] + 1
                      /\ Len(totalClaimed'[w]) > Len(totalClaimed[w])]_vars
    /\ [][\A w \in Workers :
             (pc[w] \in ClaimPcs /\ pc'[w] = "returned") =>
                \/ Len(totalClaimed'[w]) = Len(totalClaimed[w])
                \/ remainingCapacity'[w] = 0
                \/ attemptCount'[w] = maxAttempts]_vars

\* a call has returned after three rounds that each claimed something, with
\* capacity still left
C10_Witness ==
    /\ pc["w1"] = "returned"
    /\ attemptCount["w1"] = maxAttempts
    /\ remainingCapacity["w1"] > 0
    /\ Len(totalClaimed["w1"]) >= maxAttempts

ErrorPcs == {"selectError", "updateError", "dbError1", "dbError2", "dbError3"}

\* C11: once the select or update of a tier has reported an error, the claim
\* call's next step propagates it: the call ends by throwing, in the
\* implementation of _shared/queue.ts and in the database module's.
C11_ErrorsPropagate ==
    [][\A w \in Workers :
          (pc[w] \in ErrorPcs /\ pc'[w] # pc[w]) => pc'[w] = "threw"]_vars

\* batch x may be taken while batch y is left: y is not of higher priority,
\* and not older at equal priority
TakenFirst(x, y) ==
    /\ ~(batches[y].priority = "HIGH" /\ batches[x].priority = "LOW")
    /\ batches[x].priority = batches[y].priority
          => batches[x].created_at <= batches[y].created_at

\* the PENDING rows worker w's step takes, and the ones it could have taken
PendingTaken(w) ==
    CASE pc[w] \in {"select1", "select3"} -> batchesToClaim'[w]
      [] pc[w] \in {"db1", "db3"} ->
            {b \in BatchIds : batches'[b].worker_id = w /\ batches[b].worker_id # w}
      [] OTHER -> {}

PendingOffered(w) ==
    CASE pc[w] = "select1" -> Candidates(1, sellerId[w])
      [] pc[w] = "select3" -> Candidates(3, sellerId[w])
      [] pc[w] = "db1" -> DbCandidates(1, sellerId[w])
      [] pc[w] = "db3" -> DbCandidates(3, sellerId[w])
      [] OTHER -> {}

\* C12: a pending tier takes every HIGH batch before any LOW batch and, at
\* equal priority, the oldest first: a batch it takes never ranks behind a
\* batch it leaves.
C12_HighBeforeLowOldestFirst ==
    [][\A w \in Workers :
          \A x \in PendingTaken(w) : \A y \in PendingOffered(w) \ PendingTaken(w) :
             TakenFirst(x, y)]_vars

\* the call of function fn has returned
Returns(fn) == args # NoCall /\ args.fn = fn /\ result # NoCall

\* C13: for 0 < itemCount <= 3000 the threshold is 50 by default, 20 when
\* fillPercent < 30, 75 when fillPercent > 80, then min(threshold, 20) when
\* recentConsumption > 2000; the route is QUEUE iff itemCount > threshold and
\* EDGE otherwise; for itemCount <= 0 or itemCount > 3000 the route is SKIP.
C13_ThresholdAndRoute ==
    Returns("shouldUseQueue") =>
        LET n == args.productCount
            f == args.tokenPercent
            u == args.recentUsage
            base == IF f = Undefined THEN 50
                    ELSE IF f < 30 THEN 20 ELSE IF f > 80 THEN 75 ELSE 50
            th == IF u # Undefined /\ u > 2000 THEN Min(base, 20) ELSE base
        IN IF n <= 0 \/ n > 3000
           THEN result.route = "skip"
           ELSE /\ result.threshold = th
                /\ result.route = IF n > th THEN "queue" ELSE "edge"

\* itemCount 30 at fillPercent 20 gave threshold 20 and route QUEUE, the
\* reason citing low token availability
C13_Witness ==
    /\ Returns("shouldUseQueue")
    /\ args.productCount = 30
    /\ args.tokenPercent = 20
    /\ args.recentUsage = Undefined
    /\ result = Decision("queue", <<"Queue processing", "low">>, 20)

IsHeavyUserCall ==
    /\ Returns("shouldUseQueue")
    /\ args.productCount = 10
    /\ args.tokenPercent = 90
    /\ args.recentUsage = 2500

\* C14 as stated: itemCount 10, fillPercent 90, recentConsumption 2500 gives
\* threshold 20 and route QUEUE.
C14_HeavyUserQueued ==
    IsHeavyUserCall => result.threshold = 20 /\ result.route = "queue"

\* C14, amended: itemCount 10, fillPercent 90, recentConsumption 2500 gives
\* threshold 20 (forced by heavy usage) and route EDGE, because 10 does not
\* exceed 20.
C14_HeavyUserThresholdEdge ==
    IsHeavyUserCall =>
        /\ result.threshold = 20
        /\ result.route = "edge"
        /\ result.reason = <<"within threshold">>

C14_Witness == IsHeavyUserCall /\ result.route = "edge"

\* C15: for fixed fillPercent and recentConsumption, once a count N is routed
\* QUEUE every count M with N < M <= 3000 is routed QUEUE, and every count
\* above 3000 is routed SKIP.
C15_MonotonicInCount ==
    (Returns("shouldUseQueue") /\ result.route = "queue") =>
        \A m \in ProductCounts :
            m > args.productCount =>
                shouldUseQueue(m, args.tokenPercent, args.recentUsage).route
                    = IF m <= 3000 THEN "queue" ELSE "skip"

\* 21 items are routed QUEUE under low fill, with larger counts up to and
\* beyond the ceiling to compare
C15_Witness ==
    /\ Returns("shouldUseQueue")
    /\ args.productCount = 21
    /\ args.tokenPercent = 20
    /\ result.route = "queue"
    /\ {3000, 3001} \subseteq ProductCounts

\* an inline run of request r is under way: its batch record is inserted and
\* not yet finished
InlineRunning(r) == lookup[r].pc \in {"step2", "final"}

\* C16: with hasActiveBatch, getProcessingRoute returns queue for every
\* positive count, and while an inline processProductBatch run of a seller is
\* under way no other batch of that seller is PENDING or PROCESSING.
C16_NoInlineRace ==
    /\ \A n \in ProductCounts : n > 0 => getProcessingRoute(n, TRUE) = "queue"
    /\ \A r \in Requests :
          InlineRunning(r) => ExistingBatches(LookupSeller) \subseteq {lookup[r].batchId}

RECURSIVE Flatten(_)
Flatten(lists) ==
    IF lists = <<>> THEN <<>> ELSE Head(lists) \o Flatten(Tail(lists))

\* C17: for maxSize > 0 the batches of splitIntoBatches(items, maxSize),
\* concatenated in order, are exactly items; every batch has at most maxSize
\* items; their number is calculateBatchCount(len(items), maxSize), which is
\* ceil(len(items) / maxSize); and split([A,B,C,D,E], 2) = [[A,B],[C,D],[E]].
C17_SplitRoundTrip ==
    /\ (Returns("splitIntoBatches") /\ args.maxSize > 0) =>
          /\ Flatten(result.value) = args.items
          /\ \A i \in DOMAIN result.value : Len(result.value[i]) <= args.maxSize
          /\ Len(result.value) = calculateBatchCount(Len(args.items), args.maxSize)
          /\ \E q \in 0..Len(args.items) :
                /\ q = Len(result.value)
                /\ q * args.maxSize >= Len(args.items)
                /\ q > 0 => (q - 1) * args.maxSize < Len(args.items)
          /\ (args.items = <<"A", "B", "C", "D", "E">> /\ args.maxSize = 2) =>
                result.value = <<(<<"A", "B">>), (<<"C", "D">>), (<<"E">>)>>
    /\ (Returns("calculateBatchCount") /\ args.maxBatchSize > 0
                                       /\ args.totalProducts >= 0) =>
          /\ result.value * args.maxBatchSize >= args.totalProducts
          /\ result.value > 0 =>
                (result.value - 1) * args.maxBatchSize < args.totalProducts

\* the scenario of the specification has been computed
C17_Witness ==
    /\ Returns("splitIntoBatches")
    /\ args.items = <<"A", "B", "C", "D", "E">>
    /\ args.maxSize = 2
    /\ Len(result.value) = 3

\* the delta detector has returned from its first run on the inputs
DeltaReturned ==
    /\ Returns("findNewAsins") \/ Returns("determineNewAsins")
    /\ ~args.again

\* the persisted and the pending items the call was given
DeltaPersisted ==
    IF args.fn = "findNewAsins" THEN args.existingProducts ELSE args.existing

DeltaPending ==
    IF args.fn = "findNewAsins"
    THEN PendingAsins(args.sellerUuid, args.product_batches)
    ELSE {}

DeltaCandidates ==
    IF args.fn = "findNewAsins" THEN args.currentAsins ELSE args.incoming

Normalized(S) == {toUpperCase(x) : x \in S}

\* C18: the detector returns exactly the candidates that are absent, compared
\* in normalized case, from the persisted items and from the items of the
\* seller's PENDING or PROCESSING batches.
C18_ExactlyTheAbsentCandidates ==
    DeltaReturned =>
       Normalized(Range(result.value)) =
          Normalized(Range(DeltaCandidates))
             \ Normalized(DeltaPersisted \cup DeltaPending)

\* C19: the returned list holds no item twice.
C19_NoDuplicates ==
    DeltaReturned =>
       \A i \in DOMAIN result.value : \A j \in DOMAIN result.value :
          result.value[i] = result.value[j] => i = j

\* C20: run again on the same candidates after its output has been added to
\* the persisted items, the detector returns the empty list.
C20_Idempotent ==
    ((Returns("findNewAsins") \/ Returns("determineNewAsins")) /\ args.again)
       => result.value = <<>>

\* the second run has returned nothing, after a first run that found two of
\* three candidates new while the third was pending
C20_Witness ==
    /\ Returns("findNewAsins")
    /\ args.again
    /\ args.currentAsins = <<"b0a", "B0A", "B0B">>
    /\ PendingAsins(args.sellerUuid, args.product_batches) = {"B0A"}
    /\ result.first = <<"b0a", "B0B">>
    /\ result.value = <<>>

\* C27: the reason of an EDGE or QUEUE decision names the rule that set the
\* threshold: low token availability when fillPercent < 30, heavy recent usage
\* when recentConsumption > 2000, and neither of them otherwise.
C27_ReasonNamesRule ==
    (Returns("shouldUseQueue") /\ result.route \in {"edge", "queue"}) =>
       LET low == args.tokenPercent # Undefined /\ args.tokenPercent < 30
           heavy == args.recentUsage # Undefined /\ args.recentUsage > 2000
       IN /\ low <=> "low" \in Range(result.reason)
          /\ heavy <=> "heavy" \in Range(result.reason)

\* the call was rejected by the input validation
Rejected == proc.asins = 0 \/ proc.asins > (IF proc.source = "EDGE" THEN 50 ELSE 100)

ProcReturned == proc.pc = "returned"

\* the batch record the call was given or created, if any
HasRecord == proc.pc # "idle" /\ proc.batchId \in BatchIds
Record == batches[proc.batchId]

FetchFailed == proc.pc # "idle" /\ proc.fetchError.cause # "none"

RanToEnd == ProcReturned /\ ~Rejected /\ proc.ret.errorType = "none"

C24_FailuresEndTerminal ==
    (ProcReturned /\ ~Rejected) =>
       /\ (FetchFailed \/ proc.updateFailed \/ proc.links = 0) => ~proc.ret.success
       /\ HasRecord => Record.status \in {"COMPLETED", "FAILED"}

\* C25: if the template upsert fails, no link row is written and every item
\* is reported failed; if it succeeds and the link upsert fails, every item is
\* reported failed with a success count of 0.
C25_TwoPhaseAllOrNothing ==
    (proc.pc = "step5" /\ proc.valid > 0 /\ proc.links = 0) =>
       /\ proc.success = 0
       /\ proc.failed = proc.products
       /\ proc.templates \in {0, proc.valid}

\* phase 1 has succeeded and phase 2 has failed
C25_Witness ==
    /\ proc.pc = "step5"
    /\ proc.templates > 0
    /\ proc.links = 0
    /\ proc.failed = proc.products

C29_TransientClassification ==
    (ProcReturned /\ FetchFailed) =>
       /\ proc.ret.errorType \in {"TRANSIENT", "HARD"}
       /\ proc.ret.errorType = "TRANSIENT" <=>
             \/ proc.fetchError.cause \in {"network", "timeout", "rate limit"}
             \/ proc.fetchError.status \in 500..599
       /\ HasRecord => Record.status = "FAILED"

\* the persist phase failed: insertProducts threw, or an upsert reported an
\* error and nothing was persisted
PersistFailed ==
    /\ ProcReturned
    /\ ~FetchFailed
    /\ proc.valid > 0
    /\ proc.links = 0

\* C30: when the persist phase fails the batch is marked FAILED and the
\* result is a failure of errorType HARD that is not offered for fallback.
C30_PersistFailureHard ==
    (PersistFailed /\ proc.ret.batchStatus # "none") =>
       /\ HasRecord => Record.status = "FAILED"
       /\ ~proc.ret.success
       /\ proc.ret.errorType = "HARD"
       /\ ~proc.ret.canFallbackToQueue

\* C26 as stated: no run is triggered while 3 or more runs execute, and never
\* more than 3 runs execute.
C26_NoTriggerAtThree ==
    /\ [][dispatch'.queued > dispatch.queued => dispatch.executing < 3]_vars
    /\ [](dispatch.executing <= 3)

\* C26, amended: a request triggers only if its own count came out below 3
\* and skips only if it came out 3 or more, a count being the number of runs
\* executing when it was taken or 0 when it could not be taken; and never more
\* than 3 runs execute, the platform holding further triggered runs back.
C26_NoTriggerOnCountOfThree ==
    /\ \A r \in Requests :
          /\ dispatch.request[r].pc \in {"triggered", "triggerFailed"}
                => dispatch.request[r].activeCount < 3
          /\ dispatch.request[r].pc = "skipped"
                => dispatch.request[r].activeCount >= 3
          /\ dispatch.request[r].activeCount \in 0..3
    /\ dispatch.executing <= 3

\* three runs execute, one request counted them and skipped, and a run
\* triggered by another request waits
C26_Witness ==
    /\ dispatch.executing = 3
    /\ dispatch.queued > 0
    /\ \E r \in Requests :
          /\ dispatch.request[r].pc = "skipped"
          /\ dispatch.request[r].activeCount = 3


\* the run of w has left its loops
RunOver(w) == pc[w] \in {"finished", "threw"}

\* C31: a failure while one claimed batch is handled (seller lookup, fetch,
\* persist, status update) never aborts the loop: the run ends only from the
\* head of the while loop, and then every batch it claimed is COMPLETED or
\* FAILED.
C31_FailureNeverAbortsLoop ==
    /\ pc["w1"] # "threw"
    /\ pc["w1"] = "finished" =>
          \A b \in BatchIds : batches[b].worker_id = "w1"
                                 => batches[b].status \in {"COMPLETED", "FAILED"}

\* C32: no claim call is issued once more than 25 minutes have elapsed, and a
\* run that is over has left no batch of its last round short of a terminal
\* status.
C32_DeadlineAndNoAbandon ==
    /\ [][loopCount'["w1"] > loopCount["w1"] => now <= 25]_vars
    /\ [](RunOver("w1") =>
             \A b \in BatchIds : batches[b].worker_id = "w1"
                                    => batches[b].status \in {"COMPLETED", "FAILED"})

\* the step is a status update of the processor run of worker w on batch b
IsProcessorRunOf(w, b) ==
    /\ pc[w] \in {"step2", "final"}
    /\ pc'[w] \in {"step2", "final", "loop"}
    /\ CurrentBatch(w) = b

\* C33: the status and the owner of a batch that is PROCESSING under a worker
\* are changed only by a claim update or by the processor run of that worker;
\* the stuck-batch cleanup of an enqueue request and the other operations
\* leave such a batch alone.
C33_OnlyClaimAndHolderWrite ==
    [][\A b \in BatchIds :
          (/\ batches[b].status = "PROCESSING"
           /\ batches[b].processing_by \in Workers
           /\ \/ batches'[b].status # batches[b].status
              \/ batches'[b].processing_by # batches[b].processing_by)
          => \/ \E w \in Workers : IsClaimUpdate(w, b)
             \/ IsProcessorRunOf(batches[b].processing_by, b)]_vars

\* C34: once the stored status of a batch is COMPLETED or FAILED, no step
\* changes it.
C34_TerminalAbsorbing ==
    [][\A b \in BatchIds :
          batches[b].status \in {"COMPLETED", "FAILED"}
             => batches'[b].status = batches[b].status]_vars

\* C35: an item count that shouldUseQueue routes to edge is within the
\* ceiling of 50 that processProductBatch enforces for source EDGE, whatever
\* the token percentage and the recent usage.
C35_EdgeRouteWithinInlineCeiling ==
    (Returns("shouldUseQueue") /\ result.route = "edge")
       => args.productCount <= maxProducts("EDGE")

\* C36: no item is held by two batches of one seller that are PENDING or
\* PROCESSING at the same time.
C36_NoItemInTwoActiveBatches ==
    \A a \in BatchIds : \A b \in BatchIds \ {a} :
        (/\ batches[a].seller_id = batches[b].seller_id
         /\ batches[a].status \in {"PENDING", "PROCESSING"}
         /\ batches[b].status \in {"PENDING", "PROCESSING"})
        => Range(batches[a].new_asins) \cap Range(batches[b].new_asins) = {}

\* C37: no state has a PENDING batch while no run executes or waits to start
\* and no enqueue call is between its batch creation and its trigger.
C37_NoStrandedPending ==
    ~(/\ dispatch.pending > 0
      /\ dispatch.executing = 0
      /\ dispatch.queued = 0
      /\ \A r \in Requests : dispatch.request[r].pc \notin {"created", "trigger"})

\* the rows a step changes
Changed == {b \in BatchIds : batches'[b] # batches[b]}

\* C38: the database module's claim is observationally the claim of
\* _shared/queue.ts: each of its tiers takes a set of batches the other
\* implementation's tier can take from the same store with the same
\* (sellerId, workerId, remaining limit), returns them in the same order and
\* leaves the store as the other's update does, and a storage error it meets
\* ends the call by throwing.
C38_ImplementationsEquivalent ==
    [][\A w \in Workers : \A tier \in 1..3 :
          /\ (pc[w] = DbPc(tier) /\ pc'[w] \notin {pc[w], DbErrorPc(tier)}) =>
                /\ Changed \in TopK(Candidates(tier, sellerId[w]), remainingCapacity[w])
                /\ batches' = ClaimUpdate(Changed, w)
                /\ DbRows(Changed, tier) = Rows(Changed)
          /\ (pc[w] = DbErrorPc(tier) /\ pc'[w] # pc[w]) => pc'[w] = "threw"]_vars

\* no TokenManager call is between its select and its update
TokensQuiet == \A r \in Requests : tokenState.call[r].pc \in {"idle", "returned"}

\* C39: whenever no call is in progress, current_tokens is the initial value
\* plus every refill applied (capped at max_tokens) minus the amounts of
\* exactly the consumeTokens calls that returned true; and current_tokens is
\* never below 0.
C39_TokensConserved ==
    /\ tokenState.current_tokens >= 0
    /\ TokensQuiet => tokenState.current_tokens = tokenState.ledger

\* the rows a step adds to the store, in creation order
Created == [i \in 1..(Cardinality(DOMAIN batches') - Cardinality(BatchIds)) |->
               batches'[Cardinality(BatchIds) + i]]

\* C40: createSmartBatches of n > 0 items creates exactly ceil(n/100) PENDING
\* batches of at most 100 items each, with product_count the item count and
\* estimated_tokens 7 times it, whose item lists in creation order make up the
\* input list; when the bulk insert fails the store is unchanged and the
\* request never triggers a worker.
C40_SmartBatchesExactAndAtomic ==
    [][\A r \in Requests :
          /\ (enqueue[r].pc = "idle" /\ enqueue'[r].pc = "created") =>
                LET asinList == enqueue'[r].newProducts
                    n == Len(asinList)
                IN /\ n > 0
                   /\ (Len(Created) - 1) * 100 < n /\ n <= Len(Created) * 100
                   /\ \A i \in 1..Len(Created) :
                         /\ Created[i].status = "PENDING"
                         /\ Len(Created[i].new_asins) <= 100
                         /\ Created[i].product_count = Len(Created[i].new_asins)
                         /\ Created[i].estimated_tokens = 7 * Created[i].product_count
                   /\ Flatten([i \in 1..Len(Created) |-> Created[i].new_asins]) = asinList
                   /\ \A b \in BatchIds : batches'[b] = batches[b]
          /\ (enqueue[r].pc = "idle" /\ enqueue'[r].pc = "failed") => batches' = batches
          /\ enqueue[r].pc = "failed" => enqueue'[r].pc = "failed"]_vars

\* a list of 201 items was stored as batches of 100, 100 and 1 items after the
\* other request's insert had failed, and the job was triggered
C40_Witness ==
    /\ enqueue["r1"].pc = "failed"
    /\ enqueue["r2"].pc = "triggered"
    /\ Len(enqueue["r2"].newProducts) = 2 * BATCH_SIZE + 1
    /\ Cardinality(BatchIds) = 3
    /\ batches[3].product_count = 1
    /\ batches[3].new_asins = <<2 * BATCH_SIZE + 1>>

====
